---- MODULE Spec2Model ----
(***************************************************************************)
(* Domain crawl engine of Dealdriver.Hubspot:                              *)
(*   - the breadth-first crawl of MultiPageScraper.scrape_multi_page       *)
(*     (src/src/services/multi_page_scraper.py), specification Spec;       *)
(*   - the dual-strategy page fetcher HTMLAwareScraper.scrape_url_with_html*)
(*     and WebScraper.scrape_url (src/src/services/html_aware_scraper.py,  *)
(*     src/src/services/scraper.py), specification SpecFetch;              *)
(*   - the consolidation MultiPageScraper.create_combined_content,         *)
(*     specification SpecCombine (and, after a crawl, Spec);               *)
(*   - the browser session pool BrowserPool                                *)
(*     (src/src/services/browser_pool.py), specification SpecPool;         *)
(*   - the batch runner MultiprocessingManager.process_batch               *)
(*     (src/src/utils/multiprocessing_manager.py), specification SpecBatch;*)
(*   - MultiPageDomainEnrichmentService.enrich_domain                      *)
(*     (src/src/services/multi_page_domain_enrichment_service.py),         *)
(*     specification SpecDomain;                                           *)
(*   - WebScraper.extract_emails_from_html (src/src/services/scraper.py),  *)
(*     specification SpecEmails;                                           *)
(*   - normalize_url and extract_domain (src/src/utils/domain.py),         *)
(*     specification SpecNormalize;                                        *)
(*   - EnrichmentService.enrich_company and its multi-page subclass        *)
(*     (src/src/services/enrichment_service.py,                            *)
(*     src/src/services/multi_page_enrichment_service.py),                 *)
(*     specification SpecCompany;                                          *)
(*   - the token bucket ThreadSafeRateLimiter                              *)
(*     (src/src/utils/rate_limiter.py), specifications SpecLimiter and     *)
(*     FairSpecLimiter;                                                    *)
(*   - the global pool of get_browser_pool / cleanup_browser_pool and the  *)
(*     thread-local services of ConcurrentEnrichmentService                *)
(*     (src/src/services/browser_pool.py,                                  *)
(*     src/src/services/concurrent_enrichment_service.py),                 *)
(*     specification SpecRegistry.                                         *)
(***************************************************************************)
EXTENDS Integers, Sequences, FiniteSets, TLC

\* ------------------------------------------------------------------ bounds
\* largest max_pages argument tried
MaxPagesBound == 4
\* largest max_depth argument tried
MaxDepthBound == 2
\* largest number of href attributes on one fetched page
MaxLinks == 2
\* largest number of entries of a results map handed to create_combined_content
MaxResults == 2
\* largest max_sessions of a browser pool
MaxSessionsBound == 2
\* largest max_requests_per_session of a browser pool
MaxRequestsBound == 2
\* number of threads sharing one browser pool
NumThreads == 2
\* number of get_browser and close_all calls the threads start in all
MaxOps == 3
\* items of one batch
MaxBatch == 3
\* addresses found in one page
MaxEmails == 3
\* leading "www." labels of an input of the normalization
MaxWww == 2
\* largest burst_size of a rate limiter
MaxBurst == 2
\* largest min_interval of a rate limiter, in ticks
MaxInterval == 2
\* number of acquire calls the threads start in all
MaxCalls == 3

\* ------------------------------------------------------------ URLs, hosts
\* A host is its sequence of labels: "www.example.com" is <<"www","example","com">>.
\* A URL is [host, path], the path without trailing slash and without fragment,
\* which is the form the link extractor produces.
ExampleHost == <<"example", "com">>
WwwHost == <<"www", "example", "com">>
ShopHost == <<"shop", "example", "com">>
ExternalHost == <<"external", "com">>

\* str.startswith('www.') followed by [4:]
StripWww(h) == IF Len(h) >= 2 /\ h[1] = "www" THEN Tail(h) ELSE h

\* h.endswith('.' + t)
EndsWithDot(h, t) ==
    /\ Len(h) > Len(t)
    /\ SubSeq(h, Len(h) - Len(t) + 1, Len(h)) = t

\* The domains handed to scrape_domain_multi_page; "[" is a domain for which
\* urlparse("https://" + domain) raises ValueError (Invalid IPv6 URL).
Domains == {"example.com", "www.example.com", "["}

\* start_url = f"https://{domain}"
StartUrl(domain) ==
    CASE domain = "example.com" -> [host |-> ExampleHost, path |-> ""]
      [] domain = "www.example.com" -> [host |-> WwwHost, path |-> ""]
      [] OTHER -> [host |-> <<"[">>, path |-> ""]

\* urlparse raises ValueError on a bracket that opens no IPv6 literal
UrlparseRaises(url) == url.host = <<"[">>

\* The href attributes a fetched page may carry, after urljoin against the page's
\* URL: an absolute URL with an optional trailing slash and fragment, a bare
\* "#..." anchor, a "javascript:" target, or an href on which urljoin raises.
UrlHref(h, p, s, f) == [kind |-> "url", host |-> h, path |-> p, slash |-> s, frag |-> f]
Hrefs ==
    { UrlHref(ExampleHost, "", TRUE, FALSE),
      UrlHref(ExampleHost, "/about", FALSE, FALSE),
      UrlHref(ExampleHost, "/about", TRUE, FALSE),
      UrlHref(ExampleHost, "/about", FALSE, TRUE),
      UrlHref(WwwHost, "/about", FALSE, FALSE),
      UrlHref(ShopHost, "", FALSE, FALSE),
      UrlHref(ExternalHost, "", FALSE, FALSE),
      [kind |-> "anchor", host |-> <<>>, path |-> "", slash |-> FALSE, frag |-> TRUE],
      [kind |-> "javascript", host |-> <<>>, path |-> "", slash |-> FALSE, frag |-> FALSE],
      [kind |-> "invalid", host |-> <<>>, path |-> "", slash |-> FALSE, frag |-> FALSE] }

RECURSIVE SetsUpTo(_)
SetsUpTo(n) ==
    IF n = 0 THEN {{}}
    ELSE LET prev == SetsUpTo(n - 1)
         IN  prev \cup { S \cup {h} : S \in prev, h \in Hrefs }

\* The markup of a page, as far as the crawl reads it: its set of hrefs.
HtmlPages == SetsUpTo(MaxLinks)

\* absolute_url.split('#')[0].rstrip('/')
NormalizeLink(href) == [host |-> href.host, path |-> href.path]

\* HTMLAwareScraper.extract_links_from_html: the set of links it collects.
IsInternalAny(href, target_domain) == TRUE
IsInternal(href, target_domain) ==
    LET url_domain == StripWww(href.host)
    IN  url_domain = target_domain \/ EndsWithDot(url_domain, target_domain)

\* urljoin or urlparse raises on one of the hrefs: the except branch is taken
ExtractRaises(html) == \E h \in html : h.kind = "invalid"

\* a link extraction that keeps the links of the hrefs it could parse
ExtractParsedLinks(html, target_domain) ==
    { NormalizeLink(h) : h \in { x \in html : x.kind = "url" /\ IsInternal(x, target_domain) } }
extract_links_from_html(html, target_domain) ==
    IF ExtractRaises(html)
    THEN {}
    ELSE { NormalizeLink(h) : h \in { x \in html : x.kind = "url" /\ IsInternal(x, target_domain) } }

\* the absolute URLs the extractor reads off a page, before the domain filter
AbsoluteLinks(html) ==
    IF \E h \in html : h.kind = "invalid"
    THEN {}
    ELSE { NormalizeLink(h) : h \in { x \in html : x.kind = "url" } }

\* list(links): the orders in which a set can be listed
Orders(S) ==
    { o \in [1..Cardinality(S) -> S] : \A i, j \in 1..Cardinality(S) : i # j => o[i] # o[j] }

\* ------------------------------------------------------------- crawl state
VARIABLES
    pc,             \* position of the scrape_domain_multi_page call
    domain,         \* argument of scrape_domain_multi_page
    max_depth,      \* self.max_depth
    max_pages,      \* argument max_pages
    base_domain,    \* host of start_url without a leading www.
    url_queue,      \* deque of <<url, depth>>
    visited_urls,   \* set of URLs
    scraped_pages,  \* insertion-ordered dict url -> ScrapedContent, as a sequence
    pages_by_depth, \* dict depth -> count
    exc,            \* the exception that left the call ("None" when none did)
    pop_log,        \* history: the pairs taken from the front of the queue, in order
    fetch_log,      \* history: the calls of scrape_url_with_html, in order
    linked_urls,    \* history: the absolute links carried by the pages fetched
    extracted_urls, \* history: the links the calls of extract_links_from_html returned
    extract_raised  \* the iteration just run called extract_links_from_html
                    \* and the call ended in its except handler

crawlVars == <<pc, domain, max_depth, max_pages, base_domain, url_queue,
               visited_urls, scraped_pages, pages_by_depth, exc, pop_log, fetch_log,
               linked_urls, extracted_urls, extract_raised>>

\* ----------------------------------------------------------- fetcher state
VARIABLES
    f_pc,           \* position of the scrape_url_with_html / scrape_url call
    f_entry,        \* which of the two entry points was called
    f_url,          \* the URL argument
    cfg,            \* what WebScraper.__init__ left in the scraper object
    light,          \* what the lightweight attempt gave
    f_variant,      \* the rendering function in progress
    f_len,          \* length of the body text the rendering engine read
    f_exc,          \* message of the exception caught in the rendering function
    f_ret,          \* the value returned
    f_escaped,      \* the exception that left the call ("None" when none did)
    driver_open,    \* the rendering session of the scraper object is open
    initialized,    \* history: this call initialized a rendering session
    cleanup_calls,  \* history: cleanups of the rendering session by this call
    render_calls,   \* history: the rendering functions called, in order
    pool_exc        \* message of the exception the pooled attempt raised ("None" when none)

fetchVars == <<f_pc, f_entry, f_url, cfg, light, f_variant, f_len, f_exc, f_ret,
               f_escaped, driver_open, initialized, cleanup_calls, render_calls,
               pool_exc>>

\* ----------------------------------------------------- consolidation state
VARIABLES
    combine_pc,     \* position of the create_combined_content call
    combine_pages,  \* its argument scraped_pages
    combined        \* the ScrapedContent it returned

combineVars == <<combine_pc, combine_pages, combined>>

\* ------------------------------------------------------ browser pool state
VARIABLES
    max_sessions,    \* self.max_sessions
    max_requests,    \* self.max_requests_per_session
    pool,            \* self._pool, a FIFO queue of sessions
    active_sessions, \* self._active_sessions
    lock,            \* self._lock: the thread holding it, 0 when free
    browsers,        \* per session: "none" (not created), "open" or "closed"
    request_count,   \* per session: session.request_count
    th_pc,           \* per thread: its position in get_browser / close_all
    th_session,      \* per thread: the local variable session (0 is None)
    th_after,        \* per thread: where _close_session returns to
    th_tmp,          \* per thread: the value read by an in-place += or -=
    th_exc,          \* per thread: get_browser re-raised an exception
    ops_started      \* history: the get_browser and close_all calls started so far

poolVars == <<max_sessions, max_requests, pool, active_sessions, lock, browsers,
              request_count, th_pc, th_session, th_after, th_tmp, th_exc, ops_started>>

\* ------------------------------------------------------ batch processing state
VARIABLES
    b_pc,            \* position of the process_batch call
    items,           \* the items argument
    behaviour,       \* per item: what process_func does on it, "returns" or "raises"
    callback,        \* the callback argument: "None", or what a call of it does
    futures,         \* self.futures, per task "pending", "done" or "yielded" by as_completed
    b_results,       \* the local list results
    b_errors,        \* the local list errors
    processed_count, \* self.processed_count
    b_exc            \* the exception that left process_batch ("None" when none did)

batchVars == <<b_pc, items, behaviour, callback, futures, b_results, b_errors,
               processed_count, b_exc>>

\* --------------------------------------------------- domain enrichment state
VARIABLES
    d_pc,            \* position of the enrich_domain call
    scraping_depth,  \* self.scraping_depth
    d_crawl,         \* what the scrape call does: "returns" or "raises"
    d_pages,         \* the local scraped_pages (the crawl's results map)
    d_scraped,       \* the local scraped
    d_result         \* the local result, returned at the end

domainVars == <<d_pc, scraping_depth, d_crawl, d_pages, d_scraped, d_result>>

\* ------------------------------------------------------ e-mail extraction state
VARIABLES
    e_pc,            \* position of the extract_emails_from_html call
    all_emails,      \* re.findall(email_pattern, html): the addresses in the markup, in order
    e_domain,        \* the domain argument
    domain_emails    \* the list returned

emailVars == <<e_pc, all_emails, e_domain, domain_emails>>

\* --------------------------------------------------------- normalization state
VARIABLES
    n_pc,            \* position: "call", "once" (applied once), "done" (applied again)
    n_fn,            \* the function applied: "normalize_url" or "extract_domain"
    n_input,         \* the argument of the first call
    n_once,          \* what the first call returned
    n_twice          \* what the call on that value returned

normVars == <<n_pc, n_fn, n_input, n_once, n_twice>>

\* -------------------------------------------------- company enrichment state
VARIABLES
    c_pc,              \* position of the enrich_company call
    c_class,           \* the class of the service object
    c_frame,           \* the class whose enrich_company is running
    c_depth,           \* self.scraping_depth (MultiPageEnrichmentService)
    c_domain,          \* company.domain
    processed_domains, \* self.processed_domains
    c_scrape,          \* what the scrape gives: "success", "failed" or "no pages"
    c_analysis,        \* what analyze_company returns
    c_update,          \* what update_company does: "returns" or "raises"
    c_fresh,           \* history: the domain was not in processed_domains at the call
    analyze_calls,     \* history: calls of analyze_company
    update_calls,      \* history: calls of update_company
    c_ret              \* the value returned ("None" while the call runs)

companyVars == <<c_pc, c_class, c_frame, c_depth, c_domain, processed_domains, c_scrape,
                 c_analysis, c_update, c_fresh, analyze_calls, update_calls, c_ret>>

\* -------------------------------------------------------- rate limiter state
VARIABLES
    l_pc,           \* per thread: position of its acquire call on the limiter
    l_n,            \* per thread: the tokens argument of its acquire call
    l_sleep,        \* per thread: ticks left of its time.sleep(wait_time)
    tokens,         \* self.tokens
    max_tokens,     \* self.max_tokens = config.burst_size
    min_interval,   \* self.min_interval, in ticks
    elapsed,        \* time.time() - self.last_refill, in ticks, up to a full bucket
    l_lock,         \* self.lock: 0 when free, else the thread holding it
    l_calls         \* number of acquire calls started

limitVars == <<l_pc, l_n, l_sleep, tokens, max_tokens, min_interval, elapsed, l_lock, l_calls>>

\* ------------------------------------------------- global browser pool state
VARIABLES
    g_pool,         \* the module global _browser_pool: 0 for None, else the instance
    g_created,      \* number of BrowserPool instances constructed so far
    r_depth,        \* scraping_depth of the ConcurrentEnrichmentService
    r_lib,          \* the scraper library can be imported
    r_pc,           \* per thread: position in _get_enrichment_service or cleanup_browser_pool
    r_has,          \* per thread: hasattr(self._local, 'service')
    r_pool,         \* per thread: browser_pool of the thread's scraper, 0 for None
    r_cleaned       \* cleanup_browser_pool has been called

registryVars == <<g_pool, g_created, r_depth, r_lib, r_pc, r_has, r_pool, r_cleaned>>

enrichVars == <<batchVars, domainVars, emailVars, normVars, companyVars, limitVars, registryVars>>

\* what the steps of one subsystem leave alone
coreVars == <<crawlVars, fetchVars, combineVars, poolVars>>
notBatchVars == <<coreVars, domainVars, emailVars, normVars, companyVars, limitVars, registryVars>>
notDomainVars == <<coreVars, batchVars, emailVars, normVars, companyVars, limitVars, registryVars>>
notEmailVars == <<coreVars, batchVars, domainVars, normVars, companyVars, limitVars, registryVars>>
notNormVars == <<coreVars, batchVars, domainVars, emailVars, companyVars, limitVars, registryVars>>
notCompanyVars == <<coreVars, batchVars, domainVars, emailVars, normVars, limitVars, registryVars>>
notLimitVars == <<coreVars, batchVars, domainVars, emailVars, normVars, companyVars, registryVars>>
notRegistryVars == <<coreVars, batchVars, domainVars, emailVars, normVars, companyVars, limitVars>>

vars == <<crawlVars, fetchVars, combineVars, poolVars, enrichVars>>

\* Text is a sequence of pieces: words, runs of whitespace and, in the
\* consolidated text, the "=== Page: <url> ===" lines.
NoUrl == [host |-> <<>>, path |-> ""]
Ws == [kind |-> "ws", url |-> NoUrl, word |-> ""]
Word(w) == [kind |-> "word", url |-> NoUrl, word |-> w]
Header(url) == [kind |-> "header", url |-> url, word |-> ""]

\* the text of a page fetched with success by the crawl: more than
\* MIN_CONTENT_LENGTH characters, of which the crawl reads none
PageText == <<Word("text")>>

\* ScrapedPage as scrape_url_with_html returns it: a failed page carries
\* html_content = "" (no hrefs).
ScrapedPageResults ==
    { [success |-> TRUE, error |-> "None", html |-> h, text_content |-> PageText,
       emails |-> {}] : h \in HtmlPages }
    \cup { [success |-> FALSE, error |-> "error", html |-> {}, text_content |-> <<>>,
            emails |-> {}] }

Keys(pages) == { pages[i].key : i \in 1..Len(pages) }

\* scraped_pages[current_url] = scraped_content
StoreResultSkipFailed(pages, url, page) ==
    IF page.success
    THEN Append(pages, [key |-> url, success |-> page.success, error |-> page.error,
                        content |-> page.text_content, emails |-> page.emails])
    ELSE pages
StoreResult(pages, url, page) ==
    LET entry == [key |-> url, success |-> page.success, error |-> page.error,
                  content |-> page.text_content, emails |-> page.emails]
    IN  IF url \in Keys(pages)
        THEN [i \in 1..Len(pages) |-> IF pages[i].key = url THEN entry ELSE pages[i]]
        ELSE Append(pages, entry)

\* while url_queue and len(scraped_pages) < max_pages
LoopCondOffByOne == url_queue # <<>> /\ Len(scraped_pages) <= max_pages
LoopCond == url_queue # <<>> /\ Len(scraped_pages) < max_pages

\* if current_url in visited_urls: continue
AlreadyVisitedNever(url) == FALSE
AlreadyVisited(url) == url \in visited_urls

\* if scraped_page.success and current_depth < self.max_depth
ShouldExtractOffByOne(page, depth) == page.success /\ depth <= max_depth
ShouldExtract(page, depth) == page.success /\ depth < max_depth

InQueue(pair, queue) == \E i \in 1..Len(queue) : queue[i] = pair

\* for link in links: if link not in visited_urls and (link, depth+1) not in
\* url_queue: url_queue.append((link, depth+1))
EnqueueNothing(links, queue, visited, depth) == queue
EnqueueLinksFront(links, queue, visited, depth) ==
    [i \in 1..Len(links) |-> <<links[i], depth + 1>>] \o queue
EnqueueLinksUnchecked(links, queue, visited, depth) ==
    queue \o [i \in 1..Len(links) |-> <<links[i], depth + 1>>]
RECURSIVE EnqueueLinks(_, _, _, _)
EnqueueLinks(links, queue, visited, depth) ==
    IF links = <<>> THEN queue
    ELSE LET link == Head(links)
             q == IF link \notin visited /\ ~InQueue(<<link, depth + 1>>, queue)
                  THEN Append(queue, <<link, depth + 1>>)
                  ELSE queue
         IN  EnqueueLinks(Tail(links), q, visited, depth)

\* scrape_domain_multi_page, then scrape_multi_page up to the loop
Start ==
    /\ pc = "call"
    /\ LET start_url == StartUrl(domain)
       IN  IF UrlparseRaises(start_url)
           THEN /\ pc' = "raised"
                /\ exc' = "ValueError"
                /\ UNCHANGED <<base_domain, url_queue, pages_by_depth>>
           ELSE /\ pc' = "loop"
                /\ exc' = exc
                /\ base_domain' = StripWww(start_url.host)
                /\ url_queue' = << <<start_url, 0>> >>
                /\ pages_by_depth' = [i \in 0..max_depth |-> 0]
    /\ UNCHANGED <<domain, max_depth, max_pages, visited_urls, scraped_pages,
                   pop_log, fetch_log, linked_urls, extracted_urls, extract_raised>>
    /\ UNCHANGED <<fetchVars, combineVars, poolVars, enrichVars>>

\* one iteration that pops an already visited URL
SkipVisited ==
    /\ pc = "loop"
    /\ LoopCond
    /\ AlreadyVisited(Head(url_queue)[1])
    /\ url_queue' = Tail(url_queue)
    /\ pop_log' = Append(pop_log, Head(url_queue))
    /\ extract_raised' = FALSE
    /\ UNCHANGED <<pc, domain, max_depth, max_pages, base_domain, visited_urls,
                   scraped_pages, pages_by_depth, exc, fetch_log,
                   linked_urls, extracted_urls>>
    /\ UNCHANGED <<fetchVars, combineVars, poolVars, enrichVars>>

\* one iteration that fetches the popped URL. The "except AttributeError"
\* handler around scrape_url_with_html is not modelled as a branch: the method
\* is inherited from HTMLAwareScraper and catches every exception raised
\* inside it (HtmlFetcherNeverRaises, under SpecFetch).
ScrapePage ==
    /\ pc = "loop"
    /\ LoopCond
    /\ ~AlreadyVisited(Head(url_queue)[1])
    /\ LET current_url == Head(url_queue)[1]
           current_depth == Head(url_queue)[2]
       IN  /\ pop_log' = Append(pop_log, Head(url_queue))
           /\ visited_urls' = visited_urls \cup {current_url}
           /\ IF current_depth \notin DOMAIN pages_by_depth
              THEN \* pages_by_depth[current_depth] += 1 raises KeyError
                   /\ pc' = "raised"
                   /\ exc' = "KeyError"
                   /\ url_queue' = Tail(url_queue)
                   /\ extract_raised' = FALSE
                   /\ UNCHANGED <<scraped_pages, pages_by_depth, fetch_log,
                                  linked_urls, extracted_urls>>
              ELSE /\ pages_by_depth' =
                          [pages_by_depth EXCEPT ![current_depth] = @ + 1]
                   /\ \E page \in ScrapedPageResults :
                        /\ fetch_log' = Append(fetch_log,
                               [url |-> current_url, depth |-> current_depth,
                                success |-> page.success])
                        /\ scraped_pages' = StoreResult(scraped_pages, current_url, page)
                        /\ linked_urls' = linked_urls \cup AbsoluteLinks(page.html)
                        /\ IF ShouldExtract(page, current_depth)
                           THEN /\ extract_raised' = ExtractRaises(page.html)
                                /\ extracted_urls' = extracted_urls
                                       \cup extract_links_from_html(page.html, base_domain)
                                /\ \E links \in Orders(extract_links_from_html(page.html, base_domain)) :
                                      url_queue' = EnqueueLinks(links, Tail(url_queue),
                                                                visited_urls', current_depth)
                           ELSE /\ extract_raised' = FALSE
                                /\ extracted_urls' = extracted_urls
                                /\ url_queue' = Tail(url_queue)
                   /\ UNCHANGED <<pc, exc>>
    /\ UNCHANGED <<domain, max_depth, max_pages, base_domain>>
    /\ UNCHANGED <<fetchVars, combineVars, poolVars, enrichVars>>

\* the loop condition fails: return scraped_pages
Return ==
    /\ pc = "loop"
    /\ ~LoopCond
    /\ pc' = "done"
    /\ extract_raised' = FALSE
    /\ UNCHANGED <<domain, max_depth, max_pages, base_domain, url_queue, visited_urls,
                   scraped_pages, pages_by_depth, exc, pop_log, fetch_log,
                   linked_urls, extracted_urls>>
    /\ UNCHANGED <<fetchVars, combineVars, poolVars, enrichVars>>

NextCrawl == Start \/ SkipVisited \/ ScrapePage \/ Return

\* --------------------------------------------------------- the page fetcher
MIN_CONTENT_LENGTH == 100
\* ProcessingConfig.MIN_DOMAIN_LENGTH
MIN_DOMAIN_LENGTH == 4

\* lengths of the text a transport may deliver, around the threshold
TextLengths == {0, MIN_CONTENT_LENGTH - 1, MIN_CONTENT_LENGTH, MIN_CONTENT_LENGTH + 1}

\* what a transport does: it raises, or it delivers a page with text of some length
Behaviour(k) == [kind |-> k, len |-> 0]
Pages == { [kind |-> "page", len |-> n] : n \in TextLengths }

\* WebScraper.__init__ either sets the three scraper attributes or, when the
\* scraper library cannot be set up, leaves all of them None; the pool is
\* looked up only when use_browser_pool is set, and may fail to come up.
ScraperConfigs ==
    { [requests_scraper |-> TRUE, fallback_scraper |-> TRUE, selenium_class |-> TRUE,
       use_browser_pool |-> u, browser_pool |-> b] : u \in BOOLEAN, b \in BOOLEAN }
    \cup
    { [requests_scraper |-> FALSE, fallback_scraper |-> FALSE, selenium_class |-> FALSE,
       use_browser_pool |-> u, browser_pool |-> FALSE] : u \in BOOLEAN }

NoResult == [kind |-> "none", success |-> FALSE, len |-> 0, error |-> "None", source |-> "none"]
Result(ok, n, err, src) ==
    [kind |-> "result", success |-> ok, len |-> n, error |-> err, source |-> src]
Raised(msg) == [kind |-> "raised", success |-> FALSE, len |-> 0, error |-> msg, source |-> "requests"]

\* messages of the exceptions the transports raise
RenderExceptionMessages ==
    {"driver init failed", "navigation failed", "no body element", "Invalid IPv6 URL",
     "cleanup failed"}
InsufficientContentErrors == {"Insufficient content", "Insufficient content scraped"}

\* _scrape_with_requests_html / _scrape_with_requests: the whole body is one
\* try block; "throws" is the method itself raising (a replaced method), which
\* the callers handle.
LightTransport == {Behaviour("throws"), Behaviour("fetch_page raises")} \cup Pages

scrape_with_requests(url, transport) ==
    IF transport.kind = "throws" THEN Raised("Connection refused")
    ELSE IF transport.kind = "fetch_page raises"
    THEN Result(FALSE, 0, "Connection refused", "requests")
    ELSE IF UrlparseRaises(url) THEN Result(FALSE, 0, "Invalid IPv6 URL", "requests")
    ELSE Result(TRUE, transport.len, "None", "requests")

\* scraped_page.success and len(scraped_page.text_content) > self.MIN_CONTENT_LENGTH
LightSufficientAnyLength(r) == r.kind = "result" /\ r.success
LightSufficient(r) == r.kind = "result" /\ r.success /\ r.len > MIN_CONTENT_LENGTH

\* success = len(content) > self.MIN_CONTENT_LENGTH, with the error that goes with it
RenderedResult(n, variant) ==
    IF n > MIN_CONTENT_LENGTH
    THEN Result(TRUE, n, "None", "selenium")
    ELSE Result(FALSE, n,
                IF variant = "_scrape_with_new_browser"
                THEN "Insufficient content scraped" ELSE "Insufficient content",
                "selenium")

\* scraper = self.fallback_scraper or self._create_scraper()
HasScraper == cfg.fallback_scraper \/ cfg.selenium_class
\* scraper != self.fallback_scraper
OneShotScraper == ~cfg.fallback_scraper

\* entry of scrape_url_with_html / scrape_url, up to "if self.requests_scraper"
FetchCall ==
    /\ f_pc = "call"
    /\ IF f_entry = "scrape_url" /\ UrlparseRaises(f_url)
       THEN /\ f_pc' = "raised"
            /\ f_escaped' = "ValueError"
       ELSE /\ f_pc' = IF cfg.requests_scraper THEN "light" ELSE "select"
            /\ f_escaped' = f_escaped
    /\ UNCHANGED <<pool_exc, f_entry, f_url, cfg, light, f_variant, f_len, f_exc, f_ret,
                   driver_open, initialized, cleanup_calls, render_calls>>
    /\ UNCHANGED <<crawlVars, combineVars, poolVars, enrichVars>>

\* the lightweight attempt
Lightweight ==
    /\ f_pc = "light"
    /\ \E transport \in LightTransport : light' = scrape_with_requests(f_url, transport)
    /\ f_pc' = "decide"
    /\ UNCHANGED <<pool_exc, f_entry, f_url, cfg, f_variant, f_len, f_exc, f_ret, f_escaped,
                   driver_open, initialized, cleanup_calls, render_calls>>
    /\ UNCHANGED <<crawlVars, combineVars, poolVars, enrichVars>>

\* return the lightweight result, or fall through to the rendering engine
Decide ==
    /\ f_pc = "decide"
    /\ IF LightSufficient(light)
       THEN /\ f_ret' = light
            /\ f_pc' = "done"
       ELSE /\ f_ret' = f_ret
            /\ f_pc' = "select"
    /\ UNCHANGED <<pool_exc, f_entry, f_url, cfg, light, f_variant, f_len, f_exc, f_escaped,
                   driver_open, initialized, cleanup_calls, render_calls>>
    /\ UNCHANGED <<crawlVars, combineVars, poolVars, enrichVars>>

\* the choice of the rendering function
SelectRenderer ==
    /\ f_pc = "select"
    /\ IF f_entry = "scrape_url_with_html"
       THEN /\ f_pc' = "begin"
            /\ f_variant' = "_scrape_with_selenium_html"
            /\ f_ret' = f_ret
       ELSE IF ~cfg.selenium_class
       THEN /\ f_pc' = "done"
            /\ f_variant' = f_variant
            /\ f_ret' = Result(FALSE, 0, "SeleniumScraper not available", "none")
       ELSE IF cfg.use_browser_pool /\ cfg.browser_pool
       THEN /\ f_pc' = "pool"
            /\ f_variant' = "_scrape_with_browser_pool"
            /\ f_ret' = f_ret
       ELSE /\ f_pc' = "begin"
            /\ f_variant' = "_scrape_with_new_browser"
            /\ f_ret' = f_ret
    /\ UNCHANGED <<pool_exc, f_entry, f_url, cfg, light, f_len, f_exc, f_escaped,
                   driver_open, initialized, cleanup_calls, render_calls>>
    /\ UNCHANGED <<crawlVars, combineVars, poolVars, enrichVars>>

\* _scrape_with_browser_pool: whatever it raises sends scrape_url to a new browser
PoolTransport == {Behaviour("no browser"), Behaviour("raises")} \cup Pages

\* a pooled attempt whose exception leaves scrape_url
ScrapeWithBrowserPoolNoFallback ==
    /\ f_pc = "pool"
    /\ render_calls' = Append(render_calls, f_variant)
    /\ \E transport \in PoolTransport :
         IF transport.kind \in {"no browser", "raises"}
         THEN /\ f_pc' = "raised"
              /\ f_escaped' = "Exception"
              /\ pool_exc' = IF transport.kind = "no browser"
                             THEN "No browser available from pool"
                             ELSE "navigation failed"
              /\ UNCHANGED <<f_variant, f_len, f_ret>>
         ELSE /\ f_pc' = "done"
              /\ f_len' = transport.len
              /\ f_ret' = RenderedResult(transport.len, f_variant)
              /\ UNCHANGED <<f_variant, f_escaped, pool_exc>>
    /\ UNCHANGED <<f_entry, f_url, cfg, light, f_exc, driver_open, initialized, cleanup_calls>>
    /\ UNCHANGED <<crawlVars, combineVars, poolVars, enrichVars>>

ScrapeWithBrowserPool ==
    /\ f_pc = "pool"
    /\ render_calls' = Append(render_calls, f_variant)
    /\ \E transport \in PoolTransport :
         IF transport.kind \in {"no browser", "raises"}
         THEN /\ f_pc' = "begin"
              /\ f_variant' = "_scrape_with_new_browser"
              /\ pool_exc' = IF transport.kind = "no browser"
                             THEN "No browser available from pool"
                             ELSE "navigation failed"
              /\ UNCHANGED <<f_len, f_ret>>
         ELSE /\ f_pc' = "done"
              /\ f_variant' = f_variant
              /\ f_len' = transport.len
              /\ f_ret' = RenderedResult(transport.len, f_variant)
              /\ pool_exc' = pool_exc
    /\ UNCHANGED <<f_entry, f_url, cfg, light, f_exc, f_escaped,
                   driver_open, initialized, cleanup_calls>>
    /\ UNCHANGED <<crawlVars, combineVars, poolVars, enrichVars>>

\* entry of _scrape_with_selenium_html / _scrape_with_new_browser, up to the try
RenderBegin ==
    /\ f_pc = "begin"
    /\ render_calls' = Append(render_calls, f_variant)
    /\ IF ~HasScraper
       THEN /\ f_pc' = "done"
            /\ f_ret' = Result(FALSE, 0, "Failed to create scraper", "selenium")
       ELSE \E valid \in BOOLEAN :
              IF f_variant = "_scrape_with_new_browser" /\ ~valid
              THEN /\ f_pc' = "done"
                   /\ f_ret' = Result(FALSE, 0, "Invalid domain", "selenium")
              ELSE /\ f_pc' = "r_init"
                   /\ f_ret' = f_ret
    /\ UNCHANGED <<pool_exc, f_entry, f_url, cfg, light, f_variant, f_len, f_exc, f_escaped,
                   driver_open, initialized, cleanup_calls>>
    /\ UNCHANGED <<crawlVars, combineVars, poolVars, enrichVars>>

\* scraper.initialize()
RenderInit ==
    /\ f_pc = "r_init"
    /\ \E ok \in BOOLEAN :
         IF ok
         THEN /\ f_pc' = "r_load"
              /\ driver_open' = TRUE
              /\ initialized' = TRUE
              /\ f_exc' = f_exc
         ELSE /\ f_pc' = "r_except"
              /\ f_exc' = "driver init failed"
              /\ UNCHANGED <<driver_open, initialized>>
    /\ UNCHANGED <<pool_exc, f_entry, f_url, cfg, light, f_variant, f_len, f_ret, f_escaped,
                   cleanup_calls, render_calls>>
    /\ UNCHANGED <<crawlVars, combineVars, poolVars, enrichVars>>

\* driver.get, page_source, the body text, the email extraction
LoadTransport == {Behaviour("get raises"), Behaviour("body raises")} \cup Pages

RenderLoad ==
    /\ f_pc = "r_load"
    /\ \E transport \in LoadTransport :
         IF transport.kind = "get raises"
         THEN /\ f_pc' = "r_except"
              /\ f_exc' = "navigation failed"
              /\ f_len' = f_len
         ELSE IF f_variant = "_scrape_with_new_browser"
         THEN \* failures of the two reads are logged and leave "" / []
              /\ f_pc' = "r_cleanup"
              /\ f_exc' = f_exc
              /\ f_len' = transport.len
         ELSE IF transport.kind = "body raises"
         THEN /\ f_pc' = "r_except"
              /\ f_exc' = "no body element"
              /\ f_len' = f_len
         ELSE IF UrlparseRaises(f_url)
         THEN /\ f_pc' = "r_except"
              /\ f_exc' = "Invalid IPv6 URL"
              /\ f_len' = transport.len
         ELSE /\ f_pc' = "r_cleanup"
              /\ f_exc' = f_exc
              /\ f_len' = transport.len
    /\ UNCHANGED <<pool_exc, f_entry, f_url, cfg, light, f_variant, f_ret, f_escaped,
                   driver_open, initialized, cleanup_calls, render_calls>>
    /\ UNCHANGED <<crawlVars, combineVars, poolVars, enrichVars>>

\* the cleanup inside the try block
RenderCleanup ==
    /\ f_pc = "r_cleanup"
    /\ cleanup_calls' = cleanup_calls + 1
    /\ \E ok \in BOOLEAN :
         IF ok
         THEN /\ f_pc' = "r_return"
              /\ driver_open' = FALSE
              /\ f_exc' = f_exc
         ELSE /\ f_pc' = "r_except"
              /\ driver_open' = driver_open
              /\ f_exc' = "cleanup failed"
    /\ UNCHANGED <<pool_exc, f_entry, f_url, cfg, light, f_variant, f_len, f_ret, f_escaped,
                   initialized, render_calls>>
    /\ UNCHANGED <<crawlVars, combineVars, poolVars, enrichVars>>

\* the return at the end of the try block
RenderReturn ==
    /\ f_pc = "r_return"
    /\ f_ret' = RenderedResult(f_len, f_variant)
    /\ f_pc' = "done"
    /\ UNCHANGED <<pool_exc, f_entry, f_url, cfg, light, f_variant, f_len, f_exc, f_escaped,
                   driver_open, initialized, cleanup_calls, render_calls>>
    /\ UNCHANGED <<crawlVars, combineVars, poolVars, enrichVars>>

\* the except block: cleanup of a scraper that is not the fallback scraper,
\* then the failed result
RenderExcept ==
    /\ f_pc = "r_except"
    /\ IF OneShotScraper
       THEN /\ cleanup_calls' = cleanup_calls + 1
            /\ \E ok \in BOOLEAN : driver_open' = (driver_open /\ ~ok)
       ELSE UNCHANGED <<cleanup_calls, driver_open>>
    /\ f_ret' = Result(FALSE, 0, f_exc, "selenium")
    /\ f_pc' = "done"
    /\ UNCHANGED <<pool_exc, f_entry, f_url, cfg, light, f_variant, f_len, f_exc, f_escaped,
                   initialized, render_calls>>
    /\ UNCHANGED <<crawlVars, combineVars, poolVars, enrichVars>>

NextFetch ==
    \/ FetchCall
    \/ Lightweight
    \/ Decide
    \/ SelectRenderer
    \/ ScrapeWithBrowserPool
    \/ RenderBegin
    \/ RenderInit
    \/ RenderLoad
    \/ RenderCleanup
    \/ RenderReturn
    \/ RenderExcept

\* ------------------------------------------------------------ consolidation
\* The results maps handed to create_combined_content: up to MaxResults
\* entries with distinct keys; an entry carries the text (stripped, as the
\* fetchers deliver it) and the e-mail addresses of its page.
CombineUrls ==
    { StartUrl("example.com"),
      [host |-> ExampleHost, path |-> "/about"],
      [host |-> ShopHost, path |-> ""] }
Texts == { <<>>, <<Word("home")>>, <<Word("about"), Ws, Word("us")>> }
EmailSets == { {}, {"x", "y"}, {"y", "z"} }
ScrapedContents(url) ==
    { [key |-> url, success |-> ok, error |-> IF ok THEN "None" ELSE "error",
       content |-> t, emails |-> e] : ok \in BOOLEAN, t \in Texts, e \in EmailSets }

RECURSIVE MapsUpTo(_)
MapsUpTo(n) ==
    IF n = 0 THEN {<<>>}
    ELSE LET prev == MapsUpTo(n - 1)
             Extend(m) == UNION { { Append(m, c) : c \in ScrapedContents(u) } :
                                  u \in CombineUrls \ Keys(m) }
         IN  prev \cup UNION { Extend(m) : m \in prev }

ResultMaps == MapsUpTo(MaxResults)

NoDocument ==
    [url |-> NoUrl, content |-> <<>>, success |-> FALSE, error |-> "None", emails |-> {}]

\* analyze_company returned None
NoAnalysis == [ok |-> FALSE, number_of_employees |-> FALSE, annual_revenue |-> FALSE]

\* the value that stands for "no pages_scraped key"
NoCount == 0 - 1
\* result = {"name": domain, "enrichment_status": ENRICHMENT_STATUS_FAILED}
NoEnrichment ==
    [enrichment_status |-> "failed", enrichment_error |-> "None", pages_scraped |-> NoCount,
     has_scraped_urls |-> FALSE, scraped_urls |-> <<>>, has_site_content |-> FALSE]

\* if scraped.success and scraped.content
IsUsable(scraped) == scraped.success /\ scraped.content # <<>>

\* f"\n\n=== Page: {url} ===\n" followed by scraped.content
SectionTextOnly(url, content) == content
Section(url, content) == <<Ws, Header(url), Ws>> \o content

\* "".join(combined_content_parts)
RECURSIVE CombinedContentParts(_)
CombinedContentParts(pages) ==
    IF pages = <<>> THEN <<>>
    ELSE (IF IsUsable(Head(pages))
          THEN Section(Head(pages).key, Head(pages).content)
          ELSE <<>>) \o CombinedContentParts(Tail(pages))

\* all_emails after the loop
RECURSIVE AllEmails(_)
AllEmails(pages) ==
    IF pages = <<>> THEN {}
    ELSE (IF IsUsable(Head(pages)) THEN Head(pages).emails ELSE {})
         \cup AllEmails(Tail(pages))

\* successful_pages after the loop
CountAllPages(pages) == Len(pages)
RECURSIVE SuccessfulPages(_)
SuccessfulPages(pages) ==
    IF pages = <<>> THEN 0
    ELSE (IF IsUsable(Head(pages)) THEN 1 ELSE 0) + SuccessfulPages(Tail(pages))

\* str.strip()
RECURSIVE Strip(_)
Strip(text) ==
    IF text = <<>> THEN <<>>
    ELSE IF Head(text).kind = "ws" THEN Strip(Tail(text))
    ELSE IF text[Len(text)].kind = "ws" THEN Strip(SubSeq(text, 1, Len(text) - 1))
    ELSE text

\* main_url = next(iter(scraped_pages.keys()))
LastKey(pages) == pages[Len(pages)].key
MainUrl(pages) == pages[1].key

create_combined_content(pages) ==
    IF pages = <<>>
    THEN [url |-> NoUrl, content |-> <<>>, success |-> FALSE,
          error |-> "No pages scraped", emails |-> {}]
    ELSE [url |-> MainUrl(pages),
          content |-> Strip(CombinedContentParts(pages)),
          success |-> SuccessfulPages(pages) > 0,
          error |-> IF SuccessfulPages(pages) > 0 THEN "None" ELSE "No successful pages",
          emails |-> AllEmails(pages)]

\* the caller hands the crawl's results to create_combined_content
CallCombine ==
    /\ pc = "done"
    /\ pc' = "combine"
    /\ combine_pc' = "call"
    /\ combine_pages' = scraped_pages
    /\ UNCHANGED combined
    /\ UNCHANGED <<domain, max_depth, max_pages, base_domain, url_queue, visited_urls,
                   scraped_pages, pages_by_depth, exc, pop_log, fetch_log,
                   linked_urls, extracted_urls, extract_raised>>
    /\ UNCHANGED <<fetchVars, poolVars, enrichVars>>

CreateCombinedContent ==
    /\ combine_pc = "call"
    /\ combined' = create_combined_content(combine_pages)
    /\ combine_pc' = "done"
    /\ UNCHANGED combine_pages
    /\ UNCHANGED <<crawlVars, fetchVars, poolVars, enrichVars>>

\* ------------------------------------------------------------- browser pool
Threads == 1..NumThreads
\* every get_browser call creates at most one session
SessionIds == 1..MaxOps

\* the BrowserSession object a successful creation builds
NewSession ==
    CHOOSE i \in SessionIds :
        browsers[i] = "none" /\ \A j \in SessionIds : browsers[j] = "none" => i <= j

\* a thread calls get_browser (as "with pool.get_browser() as browser") or close_all
Begin(t) ==
    /\ th_pc[t] = "idle"
    /\ ops_started < MaxOps
    /\ ops_started' = ops_started + 1
    /\ \E op \in {"get_browser", "close_all"} :
         th_pc' = [th_pc EXCEPT ![t] = IF op = "get_browser" THEN "get_nowait" ELSE "ca_loop"]
    /\ th_session' = [th_session EXCEPT ![t] = 0]
    /\ th_exc' = [th_exc EXCEPT ![t] = FALSE]
    /\ UNCHANGED <<max_sessions, max_requests, pool, active_sessions, lock, browsers,
                   request_count, th_after, th_tmp>>
    /\ UNCHANGED <<crawlVars, fetchVars, combineVars, enrichVars>>

\* a queue whose get_nowait hands out its head and leaves it in the queue
GetNowaitPeek(t) ==
    /\ th_pc[t] = "get_nowait"
    /\ IF pool # <<>>
       THEN /\ th_session' = [th_session EXCEPT ![t] = Head(pool)]
            /\ th_pc' = [th_pc EXCEPT ![t] = "check_valid"]
            /\ UNCHANGED pool
       ELSE /\ th_pc' = [th_pc EXCEPT ![t] = "create"]
            /\ UNCHANGED <<pool, th_session>>
    /\ UNCHANGED <<max_sessions, max_requests, active_sessions, lock, browsers,
                   request_count, th_after, th_tmp, th_exc, ops_started>>
    /\ UNCHANGED <<crawlVars, fetchVars, combineVars, enrichVars>>

\* _get_or_create_session: self._pool.get_nowait()
GetNowait(t) ==
    /\ th_pc[t] = "get_nowait"
    /\ IF pool # <<>>
       THEN /\ th_session' = [th_session EXCEPT ![t] = Head(pool)]
            /\ pool' = Tail(pool)
            /\ th_pc' = [th_pc EXCEPT ![t] = "check_valid"]
       ELSE /\ th_pc' = [th_pc EXCEPT ![t] = "create"]
            /\ UNCHANGED <<pool, th_session>>
    /\ UNCHANGED <<max_sessions, max_requests, active_sessions, lock, browsers,
                   request_count, th_after, th_tmp, th_exc, ops_started>>
    /\ UNCHANGED <<crawlVars, fetchVars, combineVars, enrichVars>>

\* _get_or_create_session: session.is_expired(...) or session.is_stale(...)
CheckValid(t) ==
    /\ th_pc[t] = "check_valid"
    /\ \E expired \in BOOLEAN :
         IF expired
         THEN /\ th_pc' = [th_pc EXCEPT ![t] = "close"]
              /\ th_after' = [th_after EXCEPT ![t] = "create"]
         ELSE /\ th_pc' = [th_pc EXCEPT ![t] = "yield"]
              /\ UNCHANGED th_after
    /\ UNCHANGED <<max_sessions, max_requests, pool, active_sessions, lock, browsers,
                   request_count, th_session, th_tmp, th_exc, ops_started>>
    /\ UNCHANGED <<crawlVars, fetchVars, combineVars, enrichVars>>

\* _create_new_session: take the lock and test the capacity
CreateAcquire(t) ==
    /\ th_pc[t] = "create"
    /\ lock = 0
    /\ IF active_sessions >= max_sessions
       THEN /\ th_session' = [th_session EXCEPT ![t] = 0]
            /\ th_pc' = [th_pc EXCEPT ![t] = "yield"]
            /\ UNCHANGED lock
       ELSE /\ lock' = t
            /\ th_pc' = [th_pc EXCEPT ![t] = "initialize"]
            /\ UNCHANGED th_session
    /\ UNCHANGED <<max_sessions, max_requests, pool, active_sessions, browsers,
                   request_count, th_after, th_tmp, th_exc, ops_started>>
    /\ UNCHANGED <<crawlVars, fetchVars, combineVars, enrichVars>>

\* _create_new_session: SeleniumScraper(...), scraper.initialize(), BrowserSession(...)
CreateInitialize(t) ==
    /\ th_pc[t] = "initialize"
    /\ \E ok \in BOOLEAN :
         IF ok
         THEN /\ browsers' = [browsers EXCEPT ![NewSession] = "open"]
              /\ th_session' = [th_session EXCEPT ![t] = NewSession]
              /\ th_pc' = [th_pc EXCEPT ![t] = "incr_load"]
              /\ UNCHANGED lock
         ELSE /\ th_session' = [th_session EXCEPT ![t] = 0]
              /\ lock' = 0
              /\ th_pc' = [th_pc EXCEPT ![t] = "yield"]
              /\ UNCHANGED browsers
    /\ UNCHANGED <<max_sessions, max_requests, pool, active_sessions,
                   request_count, th_after, th_tmp, th_exc, ops_started>>
    /\ UNCHANGED <<crawlVars, fetchVars, combineVars, enrichVars>>

\* _create_new_session: self._active_sessions += 1, the read
CreateIncrLoad(t) ==
    /\ th_pc[t] = "incr_load"
    /\ th_tmp' = [th_tmp EXCEPT ![t] = active_sessions]
    /\ th_pc' = [th_pc EXCEPT ![t] = "incr_store"]
    /\ UNCHANGED <<max_sessions, max_requests, pool, active_sessions, lock, browsers,
                   request_count, th_session, th_after, th_exc, ops_started>>
    /\ UNCHANGED <<crawlVars, fetchVars, combineVars, enrichVars>>

\* _create_new_session: self._active_sessions += 1, the write; the lock is released
CreateIncrStore(t) ==
    /\ th_pc[t] = "incr_store"
    /\ active_sessions' = th_tmp[t] + 1
    /\ th_tmp' = [th_tmp EXCEPT ![t] = 0]
    /\ lock' = 0
    /\ th_pc' = [th_pc EXCEPT ![t] = "yield"]
    /\ UNCHANGED <<max_sessions, max_requests, pool, browsers,
                   request_count, th_session, th_after, th_exc, ops_started>>
    /\ UNCHANGED <<crawlVars, fetchVars, combineVars, enrichVars>>

\* get_browser: the body of the caller's with block runs to its end or raises
Yield(t) ==
    /\ th_pc[t] = "yield"
    /\ \E raises \in BOOLEAN :
         IF th_session[t] = 0
         THEN \* yield None; an exception of the body is re-raised
              /\ th_pc' = [th_pc EXCEPT ![t] = "idle"]
              /\ th_exc' = [th_exc EXCEPT ![t] = raises]
              /\ UNCHANGED th_after
         ELSE IF raises
         THEN /\ th_pc' = [th_pc EXCEPT ![t] = "close"]
              /\ th_after' = [th_after EXCEPT ![t] = "raise"]
              /\ UNCHANGED th_exc
         ELSE /\ th_pc' = [th_pc EXCEPT ![t] = "after_use"]
              /\ UNCHANGED <<th_after, th_exc>>
    /\ UNCHANGED <<max_sessions, max_requests, pool, active_sessions, lock, browsers,
                   request_count, th_session, th_tmp, ops_started>>
    /\ UNCHANGED <<crawlVars, fetchVars, combineVars, enrichVars>>

\* _should_recycle_session: the request count, the age or the idle time reached its limit
ShouldRecycle(count, expired) == count >= max_requests \/ expired

\* get_browser: session.request_count += 1, then the recycle test
AfterUse(t) ==
    /\ th_pc[t] = "after_use"
    /\ request_count' = [request_count EXCEPT ![th_session[t]] = @ + 1]
    /\ \E expired \in BOOLEAN :
         IF ShouldRecycle(request_count'[th_session[t]], expired)
         THEN /\ th_pc' = [th_pc EXCEPT ![t] = "close"]
              /\ th_after' = [th_after EXCEPT ![t] = "end"]
         ELSE /\ th_pc' = [th_pc EXCEPT ![t] = "put"]
              /\ UNCHANGED th_after
    /\ UNCHANGED <<max_sessions, max_requests, pool, active_sessions, lock, browsers,
                   th_session, th_tmp, th_exc, ops_started>>
    /\ UNCHANGED <<crawlVars, fetchVars, combineVars, enrichVars>>

\* get_browser: self._pool.put(session), which waits while the queue is full
Put(t) ==
    /\ th_pc[t] = "put"
    /\ Len(pool) < max_sessions
    /\ pool' = Append(pool, th_session[t])
    /\ th_session' = [th_session EXCEPT ![t] = 0]
    /\ th_pc' = [th_pc EXCEPT ![t] = "idle"]
    /\ UNCHANGED <<max_sessions, max_requests, active_sessions, lock, browsers,
                   request_count, th_after, th_tmp, th_exc, ops_started>>
    /\ UNCHANGED <<crawlVars, fetchVars, combineVars, enrichVars>>

\* where _close_session returns to, and what its caller does next
PcAfterClose(after) ==
    CASE after = "create" -> "create"
      [] after = "ca_loop" -> "ca_loop"
      [] OTHER -> "idle"

\* _close_session: session.browser.close(); when it raises, the handler logs
\* and the counter is left alone
CloseBrowser(t) ==
    /\ th_pc[t] = "close"
    /\ \E ok \in BOOLEAN, gone \in BOOLEAN :
         IF ok
         THEN /\ browsers' = [browsers EXCEPT ![th_session[t]] = "closed"]
              /\ th_pc' = [th_pc EXCEPT ![t] = "decr_load"]
              /\ UNCHANGED <<th_session, th_after, th_exc>>
         ELSE /\ browsers' = IF gone
                             THEN [browsers EXCEPT ![th_session[t]] = "closed"]
                             ELSE browsers
              /\ th_pc' = [th_pc EXCEPT ![t] = PcAfterClose(th_after[t])]
              /\ th_session' = [th_session EXCEPT ![t] = 0]
              /\ th_exc' = [th_exc EXCEPT ![t] = th_after[t] = "raise"]
              /\ th_after' = [th_after EXCEPT ![t] = "none"]
    /\ UNCHANGED <<max_sessions, max_requests, pool, active_sessions, lock,
                   request_count, th_tmp, ops_started>>
    /\ UNCHANGED <<crawlVars, fetchVars, combineVars, enrichVars>>

\* _close_session: with self._lock: self._active_sessions -= 1, the read
CloseDecrLoad(t) ==
    /\ th_pc[t] = "decr_load"
    /\ lock = 0
    /\ lock' = t
    /\ th_tmp' = [th_tmp EXCEPT ![t] = active_sessions]
    /\ th_pc' = [th_pc EXCEPT ![t] = "decr_store"]
    /\ UNCHANGED <<max_sessions, max_requests, pool, active_sessions, browsers,
                   request_count, th_session, th_after, th_exc, ops_started>>
    /\ UNCHANGED <<crawlVars, fetchVars, combineVars, enrichVars>>

\* _close_session: self._active_sessions -= 1, the write; the lock is released
\* and _close_session returns
CloseDecrStore(t) ==
    /\ th_pc[t] = "decr_store"
    /\ active_sessions' = th_tmp[t] - 1
    /\ th_tmp' = [th_tmp EXCEPT ![t] = 0]
    /\ lock' = 0
    /\ th_pc' = [th_pc EXCEPT ![t] = PcAfterClose(th_after[t])]
    /\ th_session' = [th_session EXCEPT ![t] = 0]
    /\ th_exc' = [th_exc EXCEPT ![t] = th_after[t] = "raise"]
    /\ th_after' = [th_after EXCEPT ![t] = "none"]
    /\ UNCHANGED <<max_sessions, max_requests, pool, browsers, request_count, ops_started>>
    /\ UNCHANGED <<crawlVars, fetchVars, combineVars, enrichVars>>

\* close_all: while not self._pool.empty()
CloseAllLoop(t) ==
    /\ th_pc[t] = "ca_loop"
    /\ th_pc' = [th_pc EXCEPT ![t] = IF pool = <<>> THEN "ca_reset" ELSE "ca_get"]
    /\ UNCHANGED <<max_sessions, max_requests, pool, active_sessions, lock, browsers,
                   request_count, th_session, th_after, th_tmp, th_exc, ops_started>>
    /\ UNCHANGED <<crawlVars, fetchVars, combineVars, enrichVars>>

\* close_all: session = self._pool.get_nowait(); Empty leaves the loop
CloseAllGet(t) ==
    /\ th_pc[t] = "ca_get"
    /\ IF pool # <<>>
       THEN /\ th_session' = [th_session EXCEPT ![t] = Head(pool)]
            /\ pool' = Tail(pool)
            /\ th_pc' = [th_pc EXCEPT ![t] = "close"]
            /\ th_after' = [th_after EXCEPT ![t] = "ca_loop"]
       ELSE /\ th_pc' = [th_pc EXCEPT ![t] = "ca_reset"]
            /\ UNCHANGED <<pool, th_session, th_after>>
    /\ UNCHANGED <<max_sessions, max_requests, active_sessions, lock, browsers,
                   request_count, th_tmp, th_exc, ops_started>>
    /\ UNCHANGED <<crawlVars, fetchVars, combineVars, enrichVars>>

\* close_all: self._active_sessions = 0, written without the lock
CloseAllReset(t) ==
    /\ th_pc[t] = "ca_reset"
    /\ active_sessions' = 0
    /\ th_pc' = [th_pc EXCEPT ![t] = "idle"]
    /\ UNCHANGED <<max_sessions, max_requests, pool, lock, browsers,
                   request_count, th_session, th_after, th_tmp, th_exc, ops_started>>
    /\ UNCHANGED <<crawlVars, fetchVars, combineVars, enrichVars>>

NextPool ==
    \E t \in Threads :
        \/ Begin(t)
        \/ GetNowait(t)
        \/ CheckValid(t)
        \/ CreateAcquire(t)
        \/ CreateInitialize(t)
        \/ CreateIncrLoad(t)
        \/ CreateIncrStore(t)
        \/ Yield(t)
        \/ AfterUse(t)
        \/ Put(t)
        \/ CloseBrowser(t)
        \/ CloseDecrLoad(t)
        \/ CloseDecrStore(t)
        \/ CloseAllLoop(t)
        \/ CloseAllGet(t)
        \/ CloseAllReset(t)

\* a call of scrape_domain_multi_page; no separate fetcher call in progress
Init ==
    /\ pc = "call"
    /\ domain \in Domains
    /\ max_depth \in -1..MaxDepthBound
    /\ max_pages \in 0..MaxPagesBound
    /\ base_domain = <<>>
    /\ url_queue = <<>>
    /\ visited_urls = {}
    /\ scraped_pages = <<>>
    /\ pages_by_depth = <<>>
    /\ exc = "None"
    /\ pop_log = <<>>
    /\ fetch_log = <<>>
    /\ linked_urls = {}
    /\ extracted_urls = {}
    /\ combine_pc = "idle"
    /\ combine_pages = <<>>
    /\ combined = NoDocument
    /\ max_sessions = 1
    /\ max_requests = 1
    /\ pool = <<>>
    /\ active_sessions = 0
    /\ lock = 0
    /\ browsers = [i \in SessionIds |-> "none"]
    /\ request_count = [i \in SessionIds |-> 0]
    /\ th_pc = [t \in Threads |-> "off"]
    /\ th_session = [t \in Threads |-> 0]
    /\ th_after = [t \in Threads |-> "none"]
    /\ th_tmp = [t \in Threads |-> 0]
    /\ th_exc = [t \in Threads |-> FALSE]
    /\ ops_started = 0
    /\ f_pc = "idle"
    /\ f_entry = "scrape_url_with_html"
    /\ f_url = StartUrl("example.com")
    /\ cfg = [requests_scraper |-> TRUE, fallback_scraper |-> TRUE, selenium_class |-> TRUE,
              use_browser_pool |-> FALSE, browser_pool |-> FALSE]
    /\ light = NoResult
    /\ f_variant = "none"
    /\ f_len = 0
    /\ f_exc = "None"
    /\ f_ret = NoResult
    /\ f_escaped = "None"
    /\ driver_open = FALSE
    /\ initialized = FALSE
    /\ cleanup_calls = 0
    /\ render_calls = <<>>
    /\ pool_exc = "None"
    /\ b_pc = "off"
    /\ items = <<>>
    /\ behaviour = <<>>
    /\ callback = "None"
    /\ futures = <<>>
    /\ b_results = <<>>
    /\ b_errors = <<>>
    /\ processed_count = 0
    /\ b_exc = "None"
    /\ d_pc = "off"
    /\ scraping_depth = 0
    /\ d_crawl = "returns"
    /\ d_pages = <<>>
    /\ d_scraped = NoDocument
    /\ d_result = NoEnrichment
    /\ e_pc = "off"
    /\ all_emails = <<>>
    /\ e_domain = <<>>
    /\ domain_emails = <<>>
    /\ n_pc = "off"
    /\ n_fn = "normalize_url"
    /\ n_input = <<>>
    /\ n_once = <<>>
    /\ n_twice = <<>>
    /\ c_pc = "off"
    /\ c_class = "EnrichmentService"
    /\ c_frame = "EnrichmentService"
    /\ c_depth = 0
    /\ c_domain = "example.com"
    /\ processed_domains = {}
    /\ c_scrape = "success"
    /\ c_analysis = NoAnalysis
    /\ c_update = "returns"
    /\ c_fresh = FALSE
    /\ analyze_calls = 0
    /\ update_calls = 0
    /\ c_ret = "None"
    /\ extract_raised = FALSE
    /\ l_pc = [t \in Threads |-> "off"]
    /\ l_n = [t \in Threads |-> 0]
    /\ l_sleep = [t \in Threads |-> 0]
    /\ tokens = 0
    /\ max_tokens = 0
    /\ min_interval = 1
    /\ elapsed = 0
    /\ l_lock = 0
    /\ l_calls = 0
    /\ g_pool = 0
    /\ g_created = 0
    /\ r_depth = 0
    /\ r_lib = TRUE
    /\ r_pc = [t \in Threads |-> "off"]
    /\ r_has = [t \in Threads |-> FALSE]
    /\ r_pool = [t \in Threads |-> 0]
    /\ r_cleaned = FALSE

Next == NextCrawl \/ CallCombine \/ CreateCombinedContent
Spec == Init /\ [][Next]_vars

\* The call runs on one thread and every step it takes returns (the fetcher
\* ends with a result under its timeouts), so a step that is enabled is taken.
FairSpec == Spec /\ WF_vars(Next)

\* a call of one of the two page fetchers; no crawl in progress
InitFetch ==
    /\ f_pc = "call"
    /\ f_entry \in {"scrape_url_with_html", "scrape_url"}
    /\ f_url \in {StartUrl(d) : d \in {"example.com", "["}}
    /\ cfg \in ScraperConfigs
    /\ light = NoResult
    /\ f_variant = "none"
    /\ f_len = 0
    /\ f_exc = "None"
    /\ f_ret = NoResult
    /\ f_escaped = "None"
    /\ driver_open = FALSE
    /\ initialized = FALSE
    /\ cleanup_calls = 0
    /\ render_calls = <<>>
    /\ pool_exc = "None"
    /\ pc = "idle"
    /\ domain = "example.com"
    /\ max_depth = 0
    /\ max_pages = 0
    /\ base_domain = <<>>
    /\ url_queue = <<>>
    /\ visited_urls = {}
    /\ scraped_pages = <<>>
    /\ pages_by_depth = <<>>
    /\ exc = "None"
    /\ pop_log = <<>>
    /\ fetch_log = <<>>
    /\ linked_urls = {}
    /\ extracted_urls = {}
    /\ combine_pc = "idle"
    /\ combine_pages = <<>>
    /\ combined = NoDocument
    /\ max_sessions = 1
    /\ max_requests = 1
    /\ pool = <<>>
    /\ active_sessions = 0
    /\ lock = 0
    /\ browsers = [i \in SessionIds |-> "none"]
    /\ request_count = [i \in SessionIds |-> 0]
    /\ th_pc = [t \in Threads |-> "off"]
    /\ th_session = [t \in Threads |-> 0]
    /\ th_after = [t \in Threads |-> "none"]
    /\ th_tmp = [t \in Threads |-> 0]
    /\ th_exc = [t \in Threads |-> FALSE]
    /\ ops_started = 0
    /\ b_pc = "off"
    /\ items = <<>>
    /\ behaviour = <<>>
    /\ callback = "None"
    /\ futures = <<>>
    /\ b_results = <<>>
    /\ b_errors = <<>>
    /\ processed_count = 0
    /\ b_exc = "None"
    /\ d_pc = "off"
    /\ scraping_depth = 0
    /\ d_crawl = "returns"
    /\ d_pages = <<>>
    /\ d_scraped = NoDocument
    /\ d_result = NoEnrichment
    /\ e_pc = "off"
    /\ all_emails = <<>>
    /\ e_domain = <<>>
    /\ domain_emails = <<>>
    /\ n_pc = "off"
    /\ n_fn = "normalize_url"
    /\ n_input = <<>>
    /\ n_once = <<>>
    /\ n_twice = <<>>
    /\ c_pc = "off"
    /\ c_class = "EnrichmentService"
    /\ c_frame = "EnrichmentService"
    /\ c_depth = 0
    /\ c_domain = "example.com"
    /\ processed_domains = {}
    /\ c_scrape = "success"
    /\ c_analysis = NoAnalysis
    /\ c_update = "returns"
    /\ c_fresh = FALSE
    /\ analyze_calls = 0
    /\ update_calls = 0
    /\ c_ret = "None"
    /\ extract_raised = FALSE
    /\ l_pc = [t \in Threads |-> "off"]
    /\ l_n = [t \in Threads |-> 0]
    /\ l_sleep = [t \in Threads |-> 0]
    /\ tokens = 0
    /\ max_tokens = 0
    /\ min_interval = 1
    /\ elapsed = 0
    /\ l_lock = 0
    /\ l_calls = 0
    /\ g_pool = 0
    /\ g_created = 0
    /\ r_depth = 0
    /\ r_lib = TRUE
    /\ r_pc = [t \in Threads |-> "off"]
    /\ r_has = [t \in Threads |-> FALSE]
    /\ r_pool = [t \in Threads |-> 0]
    /\ r_cleaned = FALSE

SpecFetch == InitFetch /\ [][NextFetch]_vars

\* a call of create_combined_content on some results map; no crawl and no
\* fetcher call in progress
InitCombine ==
    /\ combine_pc = "call"
    /\ combine_pages \in ResultMaps
    /\ combined = NoDocument
    /\ pc = "idle"
    /\ domain = "example.com"
    /\ max_depth = 0
    /\ max_pages = 0
    /\ base_domain = <<>>
    /\ url_queue = <<>>
    /\ visited_urls = {}
    /\ scraped_pages = <<>>
    /\ pages_by_depth = <<>>
    /\ exc = "None"
    /\ pop_log = <<>>
    /\ fetch_log = <<>>
    /\ linked_urls = {}
    /\ extracted_urls = {}
    /\ f_pc = "idle"
    /\ f_entry = "scrape_url_with_html"
    /\ f_url = StartUrl("example.com")
    /\ cfg = [requests_scraper |-> TRUE, fallback_scraper |-> TRUE, selenium_class |-> TRUE,
              use_browser_pool |-> FALSE, browser_pool |-> FALSE]
    /\ light = NoResult
    /\ f_variant = "none"
    /\ f_len = 0
    /\ f_exc = "None"
    /\ f_ret = NoResult
    /\ f_escaped = "None"
    /\ driver_open = FALSE
    /\ initialized = FALSE
    /\ cleanup_calls = 0
    /\ render_calls = <<>>
    /\ pool_exc = "None"
    /\ max_sessions = 1
    /\ max_requests = 1
    /\ pool = <<>>
    /\ active_sessions = 0
    /\ lock = 0
    /\ browsers = [i \in SessionIds |-> "none"]
    /\ request_count = [i \in SessionIds |-> 0]
    /\ th_pc = [t \in Threads |-> "off"]
    /\ th_session = [t \in Threads |-> 0]
    /\ th_after = [t \in Threads |-> "none"]
    /\ th_tmp = [t \in Threads |-> 0]
    /\ th_exc = [t \in Threads |-> FALSE]
    /\ ops_started = 0
    /\ b_pc = "off"
    /\ items = <<>>
    /\ behaviour = <<>>
    /\ callback = "None"
    /\ futures = <<>>
    /\ b_results = <<>>
    /\ b_errors = <<>>
    /\ processed_count = 0
    /\ b_exc = "None"
    /\ d_pc = "off"
    /\ scraping_depth = 0
    /\ d_crawl = "returns"
    /\ d_pages = <<>>
    /\ d_scraped = NoDocument
    /\ d_result = NoEnrichment
    /\ e_pc = "off"
    /\ all_emails = <<>>
    /\ e_domain = <<>>
    /\ domain_emails = <<>>
    /\ n_pc = "off"
    /\ n_fn = "normalize_url"
    /\ n_input = <<>>
    /\ n_once = <<>>
    /\ n_twice = <<>>
    /\ c_pc = "off"
    /\ c_class = "EnrichmentService"
    /\ c_frame = "EnrichmentService"
    /\ c_depth = 0
    /\ c_domain = "example.com"
    /\ processed_domains = {}
    /\ c_scrape = "success"
    /\ c_analysis = NoAnalysis
    /\ c_update = "returns"
    /\ c_fresh = FALSE
    /\ analyze_calls = 0
    /\ update_calls = 0
    /\ c_ret = "None"
    /\ extract_raised = FALSE
    /\ l_pc = [t \in Threads |-> "off"]
    /\ l_n = [t \in Threads |-> 0]
    /\ l_sleep = [t \in Threads |-> 0]
    /\ tokens = 0
    /\ max_tokens = 0
    /\ min_interval = 1
    /\ elapsed = 0
    /\ l_lock = 0
    /\ l_calls = 0
    /\ g_pool = 0
    /\ g_created = 0
    /\ r_depth = 0
    /\ r_lib = TRUE
    /\ r_pc = [t \in Threads |-> "off"]
    /\ r_has = [t \in Threads |-> FALSE]
    /\ r_pool = [t \in Threads |-> 0]
    /\ r_cleaned = FALSE

NextCombine == CreateCombinedContent
SpecCombine == InitCombine /\ [][NextCombine]_vars

\* a BrowserPool after __init__, shared by the threads; no crawl, no fetcher
\* call and no consolidation in progress
InitPool ==
    /\ combine_pc = "idle"
    /\ combine_pages = <<>>
    /\ combined = NoDocument
    /\ pc = "idle"
    /\ domain = "example.com"
    /\ max_depth = 0
    /\ max_pages = 0
    /\ base_domain = <<>>
    /\ url_queue = <<>>
    /\ visited_urls = {}
    /\ scraped_pages = <<>>
    /\ pages_by_depth = <<>>
    /\ exc = "None"
    /\ pop_log = <<>>
    /\ fetch_log = <<>>
    /\ linked_urls = {}
    /\ extracted_urls = {}
    /\ f_pc = "idle"
    /\ f_entry = "scrape_url_with_html"
    /\ f_url = StartUrl("example.com")
    /\ cfg = [requests_scraper |-> TRUE, fallback_scraper |-> TRUE, selenium_class |-> TRUE,
              use_browser_pool |-> FALSE, browser_pool |-> FALSE]
    /\ light = NoResult
    /\ f_variant = "none"
    /\ f_len = 0
    /\ f_exc = "None"
    /\ f_ret = NoResult
    /\ f_escaped = "None"
    /\ driver_open = FALSE
    /\ initialized = FALSE
    /\ cleanup_calls = 0
    /\ render_calls = <<>>
    /\ pool_exc = "None"
    /\ max_sessions \in 1..MaxSessionsBound
    /\ max_requests \in 1..MaxRequestsBound
    /\ pool = <<>>
    /\ active_sessions = 0
    /\ lock = 0
    /\ browsers = [i \in SessionIds |-> "none"]
    /\ request_count = [i \in SessionIds |-> 0]
    /\ th_pc = [t \in Threads |-> "idle"]
    /\ th_session = [t \in Threads |-> 0]
    /\ th_after = [t \in Threads |-> "none"]
    /\ th_tmp = [t \in Threads |-> 0]
    /\ th_exc = [t \in Threads |-> FALSE]
    /\ ops_started = 0
    /\ b_pc = "off"
    /\ items = <<>>
    /\ behaviour = <<>>
    /\ callback = "None"
    /\ futures = <<>>
    /\ b_results = <<>>
    /\ b_errors = <<>>
    /\ processed_count = 0
    /\ b_exc = "None"
    /\ d_pc = "off"
    /\ scraping_depth = 0
    /\ d_crawl = "returns"
    /\ d_pages = <<>>
    /\ d_scraped = NoDocument
    /\ d_result = NoEnrichment
    /\ e_pc = "off"
    /\ all_emails = <<>>
    /\ e_domain = <<>>
    /\ domain_emails = <<>>
    /\ n_pc = "off"
    /\ n_fn = "normalize_url"
    /\ n_input = <<>>
    /\ n_once = <<>>
    /\ n_twice = <<>>
    /\ c_pc = "off"
    /\ c_class = "EnrichmentService"
    /\ c_frame = "EnrichmentService"
    /\ c_depth = 0
    /\ c_domain = "example.com"
    /\ processed_domains = {}
    /\ c_scrape = "success"
    /\ c_analysis = NoAnalysis
    /\ c_update = "returns"
    /\ c_fresh = FALSE
    /\ analyze_calls = 0
    /\ update_calls = 0
    /\ c_ret = "None"
    /\ extract_raised = FALSE
    /\ l_pc = [t \in Threads |-> "off"]
    /\ l_n = [t \in Threads |-> 0]
    /\ l_sleep = [t \in Threads |-> 0]
    /\ tokens = 0
    /\ max_tokens = 0
    /\ min_interval = 1
    /\ elapsed = 0
    /\ l_lock = 0
    /\ l_calls = 0
    /\ g_pool = 0
    /\ g_created = 0
    /\ r_depth = 0
    /\ r_lib = TRUE
    /\ r_pc = [t \in Threads |-> "off"]
    /\ r_has = [t \in Threads |-> FALSE]
    /\ r_pool = [t \in Threads |-> 0]
    /\ r_cleaned = FALSE

SpecPool == InitPool /\ [][NextPool]_vars

\* --------------------------------------------------------- batch processing
\* EnrichmentWorkerPool.process_batch on a pool that batch_process_with_progress
\* has just created: self.futures is empty when the call starts.
BatchItems == {"example.com", "example.org"}
ItemLists == UNION { [1..n -> BatchItems] : n \in 0..MaxBatch }

\* what process_func(item) returns (enrich_domain's dictionary, by its name)
ResultOf(item) == [name |-> item]
\* _process_with_error_handling: the error_info of an item whose processing raised
ErrorInfo(item) == [item |-> item, type |-> "Exception"]
\* process_batch: the entry appended when the loop body raised
FutureExecutionError == [item |-> "", type |-> "future_execution_error"]

\* process_batch: the counters are reset and every item is submitted
SubmitTasks ==
    /\ b_pc = "call"
    /\ futures' = [i \in 1..Len(items) |-> "pending"]
    /\ processed_count' = 0
    /\ b_results' = <<>>
    /\ b_errors' = <<>>
    /\ b_pc' = "collect"
    /\ UNCHANGED <<items, behaviour, callback, b_exc>>
    /\ UNCHANGED notBatchVars

\* a worker ran _process_with_error_handling on item i to its return
ProcessWithErrorHandling(i) ==
    /\ b_pc \in {"collect", "raised"}
    /\ futures[i] = "pending"
    /\ futures' = [futures EXCEPT ![i] = "done"]
    /\ UNCHANGED <<b_pc, items, behaviour, callback, b_results, b_errors,
                   processed_count, b_exc>>
    /\ UNCHANGED notBatchVars

\* the body of the as_completed loop for the finished future of item i
CollectFuture(i) ==
    /\ b_pc = "collect"
    /\ futures[i] = "done"
    /\ futures' = [futures EXCEPT ![i] = "yielded"]
    /\ processed_count' = processed_count + 1
    /\ LET recorded_r == IF behaviour[i] = "raises" THEN b_results
                         ELSE Append(b_results, ResultOf(items[i]))
           recorded_e == IF behaviour[i] = "raises"
                         THEN Append(b_errors, ErrorInfo(items[i])) ELSE b_errors
       IN /\ b_results' = recorded_r
          /\ b_errors' = IF callback = "raises"
                         THEN Append(recorded_e, FutureExecutionError) ELSE recorded_e
    /\ UNCHANGED <<b_pc, items, behaviour, callback, b_exc>>
    /\ UNCHANGED notBatchVars

\* as_completed(self.futures, timeout=self.config.timeout): the deadline,
\* counted from the start of the loop, passes while a task is still running
AsCompletedTimeout ==
    /\ b_pc = "collect"
    /\ \E i \in 1..Len(items) : futures[i] = "pending"
    /\ b_pc' = "raised"
    /\ b_exc' = "TimeoutError"
    /\ UNCHANGED <<items, behaviour, callback, futures, b_results, b_errors, processed_count>>
    /\ UNCHANGED notBatchVars

\* return results, errors
ReturnBatch ==
    /\ b_pc = "collect"
    /\ \A i \in 1..Len(items) : futures[i] = "yielded"
    /\ b_pc' = "returned"
    /\ UNCHANGED <<items, behaviour, callback, futures, b_results, b_errors,
                   processed_count, b_exc>>
    /\ UNCHANGED notBatchVars

NextBatch ==
    \/ SubmitTasks
    \/ \E i \in 1..Len(items) : ProcessWithErrorHandling(i)
    \/ \E i \in 1..Len(items) : CollectFuture(i)
    \/ AsCompletedTimeout
    \/ ReturnBatch

\* a call of process_batch on a fresh pool; nothing else in progress
InitBatch ==
    /\ b_pc = "call"
    /\ items \in ItemLists
    /\ behaviour \in [1..Len(items) -> {"returns", "raises"}]
    /\ callback \in {"None", "returns", "raises"}
    /\ futures = <<>>
    /\ b_results = <<>>
    /\ b_errors = <<>>
    /\ processed_count = 0
    /\ b_exc = "None"
    /\ pc = "idle"
    /\ domain = "example.com"
    /\ max_depth = 0
    /\ max_pages = 0
    /\ base_domain = <<>>
    /\ url_queue = <<>>
    /\ visited_urls = {}
    /\ scraped_pages = <<>>
    /\ pages_by_depth = <<>>
    /\ exc = "None"
    /\ pop_log = <<>>
    /\ fetch_log = <<>>
    /\ linked_urls = {}
    /\ extracted_urls = {}
    /\ f_pc = "idle"
    /\ f_entry = "scrape_url_with_html"
    /\ f_url = StartUrl("example.com")
    /\ cfg = [requests_scraper |-> TRUE, fallback_scraper |-> TRUE, selenium_class |-> TRUE,
              use_browser_pool |-> FALSE, browser_pool |-> FALSE]
    /\ light = NoResult
    /\ f_variant = "none"
    /\ f_len = 0
    /\ f_exc = "None"
    /\ f_ret = NoResult
    /\ f_escaped = "None"
    /\ driver_open = FALSE
    /\ initialized = FALSE
    /\ cleanup_calls = 0
    /\ render_calls = <<>>
    /\ pool_exc = "None"
    /\ combine_pc = "idle"
    /\ combine_pages = <<>>
    /\ combined = NoDocument
    /\ max_sessions = 1
    /\ max_requests = 1
    /\ pool = <<>>
    /\ active_sessions = 0
    /\ lock = 0
    /\ browsers = [i \in SessionIds |-> "none"]
    /\ request_count = [i \in SessionIds |-> 0]
    /\ th_pc = [t \in Threads |-> "off"]
    /\ th_session = [t \in Threads |-> 0]
    /\ th_after = [t \in Threads |-> "none"]
    /\ th_tmp = [t \in Threads |-> 0]
    /\ th_exc = [t \in Threads |-> FALSE]
    /\ ops_started = 0
    /\ d_pc = "off"
    /\ scraping_depth = 0
    /\ d_crawl = "returns"
    /\ d_pages = <<>>
    /\ d_scraped = NoDocument
    /\ d_result = NoEnrichment
    /\ e_pc = "off"
    /\ all_emails = <<>>
    /\ e_domain = <<>>
    /\ domain_emails = <<>>
    /\ n_pc = "off"
    /\ n_fn = "normalize_url"
    /\ n_input = <<>>
    /\ n_once = <<>>
    /\ n_twice = <<>>
    /\ c_pc = "off"
    /\ c_class = "EnrichmentService"
    /\ c_frame = "EnrichmentService"
    /\ c_depth = 0
    /\ c_domain = "example.com"
    /\ processed_domains = {}
    /\ c_scrape = "success"
    /\ c_analysis = NoAnalysis
    /\ c_update = "returns"
    /\ c_fresh = FALSE
    /\ analyze_calls = 0
    /\ update_calls = 0
    /\ c_ret = "None"
    /\ extract_raised = FALSE
    /\ l_pc = [t \in Threads |-> "off"]
    /\ l_n = [t \in Threads |-> 0]
    /\ l_sleep = [t \in Threads |-> 0]
    /\ tokens = 0
    /\ max_tokens = 0
    /\ min_interval = 1
    /\ elapsed = 0
    /\ l_lock = 0
    /\ l_calls = 0
    /\ g_pool = 0
    /\ g_created = 0
    /\ r_depth = 0
    /\ r_lib = TRUE
    /\ r_pc = [t \in Threads |-> "off"]
    /\ r_has = [t \in Threads |-> FALSE]
    /\ r_pool = [t \in Threads |-> 0]
    /\ r_cleaned = FALSE

SpecBatch == InitBatch /\ [][NextBatch]_vars

\* -------------------------------------------------------- domain enrichment
\* MultiPageDomainEnrichmentService.enrich_domain. The result dictionary is a
\* record; pages_scraped = NoCount and has_scraped_urls = FALSE stand for a
\* dictionary without the key.
EnrichmentResult(status, err, n, has_urls, urls, has_content) ==
    [enrichment_status |-> status, enrichment_error |-> err, pages_scraped |-> n,
     has_scraped_urls |-> has_urls, scraped_urls |-> urls, has_site_content |-> has_content]

\* list(scraped_pages.keys())
KeyList(pages) == [i \in 1..Len(pages) |-> pages[i].key]

\* what scrape_domain returns for the single page
SinglePageScrapes ==
    { [url |-> c.key, content |-> c.content, success |-> c.success, error |-> c.error,
       emails |-> c.emails] : c \in ScrapedContents(StartUrl("example.com")) }

\* the scrape and what follows it, up to "if not scraped.success"
EnrichDomainScrape ==
    /\ d_pc = "call"
    /\ IF d_crawl = "raises"
       THEN /\ d_result' = [d_result EXCEPT !.enrichment_error = "Unexpected error"]
            /\ d_pc' = "returned"
            /\ UNCHANGED d_scraped
       ELSE IF scraping_depth > 0
       THEN IF d_pages = <<>>
            THEN /\ d_result' = [d_result EXCEPT !.enrichment_error = "No pages could be scraped"]
                 /\ d_pc' = "returned"
                 /\ UNCHANGED d_scraped
            ELSE /\ d_scraped' = create_combined_content(d_pages)
                 /\ d_result' = [d_result EXCEPT !.pages_scraped = Len(d_pages),
                                                  !.has_scraped_urls = TRUE,
                                                  !.scraped_urls = KeyList(d_pages)]
                 /\ d_pc' = "scraped"
       ELSE /\ \E sc \in SinglePageScrapes : d_scraped' = sc
            /\ d_result' = [d_result EXCEPT !.pages_scraped = 1]
            /\ d_pc' = "scraped"
    /\ UNCHANGED <<scraping_depth, d_crawl, d_pages>>
    /\ UNCHANGED notDomainVars

\* the test of scraped.success and the call of analyze_company
EnrichDomainAnalyze ==
    /\ d_pc = "scraped"
    /\ IF ~d_scraped.success
       THEN /\ d_result' = [d_result EXCEPT !.enrichment_error =
                               IF d_scraped.error = "None" THEN "Scraping failed"
                               ELSE d_scraped.error]
            /\ d_pc' = "returned"
       ELSE \E analysis \in {"CompanyAnalysis", "None", "raises"} :
              /\ d_result' =
                    [d_result EXCEPT !.has_site_content = TRUE,
                                     !.enrichment_error =
                                        CASE analysis = "None" -> "Analysis failed"
                                          [] analysis = "raises" -> "Unexpected error"
                                          [] OTHER -> @]
              /\ d_pc' = IF analysis = "CompanyAnalysis" THEN "build" ELSE "returned"
    /\ UNCHANGED <<scraping_depth, d_crawl, d_pages, d_scraped>>
    /\ UNCHANGED notDomainVars

\* _build_enrichment_result: a new dictionary made from the analysis
BuildEnrichmentResult == EnrichmentResult("completed", "None", NoCount, FALSE, <<>>, TRUE)

\* "scraped_urls" in locals(): enrich_domain has no local of that name
ScrapedUrlsInLocals == FALSE

\* the successful result: result is rebound to the new dictionary, then the
\* two "preserve" tests run on it
EnrichDomainBuild ==
    /\ d_pc = "build"
    /\ LET built == BuildEnrichmentResult
           counted == IF built.pages_scraped = NoCount
                      THEN [built EXCEPT !.pages_scraped = 1] ELSE built
       IN d_result' = IF ScrapedUrlsInLocals
                      THEN [counted EXCEPT !.has_scraped_urls = TRUE,
                                           !.scraped_urls = KeyList(d_pages)]
                      ELSE counted
    /\ d_pc' = "returned"
    /\ UNCHANGED <<scraping_depth, d_crawl, d_pages, d_scraped>>
    /\ UNCHANGED notDomainVars

NextDomain == EnrichDomainScrape \/ EnrichDomainAnalyze \/ EnrichDomainBuild

\* a call of enrich_domain; the crawl's results map is an input
InitDomain ==
    /\ d_pc = "call"
    /\ scraping_depth \in 0..1
    /\ d_crawl \in {"returns", "raises"}
    /\ d_pages \in IF scraping_depth > 0 /\ d_crawl = "returns" THEN ResultMaps ELSE {<<>>}
    /\ d_scraped = NoDocument
    /\ d_result = NoEnrichment
    /\ pc = "idle"
    /\ domain = "example.com"
    /\ max_depth = 0
    /\ max_pages = 0
    /\ base_domain = <<>>
    /\ url_queue = <<>>
    /\ visited_urls = {}
    /\ scraped_pages = <<>>
    /\ pages_by_depth = <<>>
    /\ exc = "None"
    /\ pop_log = <<>>
    /\ fetch_log = <<>>
    /\ linked_urls = {}
    /\ extracted_urls = {}
    /\ f_pc = "idle"
    /\ f_entry = "scrape_url_with_html"
    /\ f_url = StartUrl("example.com")
    /\ cfg = [requests_scraper |-> TRUE, fallback_scraper |-> TRUE, selenium_class |-> TRUE,
              use_browser_pool |-> FALSE, browser_pool |-> FALSE]
    /\ light = NoResult
    /\ f_variant = "none"
    /\ f_len = 0
    /\ f_exc = "None"
    /\ f_ret = NoResult
    /\ f_escaped = "None"
    /\ driver_open = FALSE
    /\ initialized = FALSE
    /\ cleanup_calls = 0
    /\ render_calls = <<>>
    /\ pool_exc = "None"
    /\ combine_pc = "idle"
    /\ combine_pages = <<>>
    /\ combined = NoDocument
    /\ max_sessions = 1
    /\ max_requests = 1
    /\ pool = <<>>
    /\ active_sessions = 0
    /\ lock = 0
    /\ browsers = [i \in SessionIds |-> "none"]
    /\ request_count = [i \in SessionIds |-> 0]
    /\ th_pc = [t \in Threads |-> "off"]
    /\ th_session = [t \in Threads |-> 0]
    /\ th_after = [t \in Threads |-> "none"]
    /\ th_tmp = [t \in Threads |-> 0]
    /\ th_exc = [t \in Threads |-> FALSE]
    /\ ops_started = 0
    /\ b_pc = "off"
    /\ items = <<>>
    /\ behaviour = <<>>
    /\ callback = "None"
    /\ futures = <<>>
    /\ b_results = <<>>
    /\ b_errors = <<>>
    /\ processed_count = 0
    /\ b_exc = "None"
    /\ e_pc = "off"
    /\ all_emails = <<>>
    /\ e_domain = <<>>
    /\ domain_emails = <<>>
    /\ n_pc = "off"
    /\ n_fn = "normalize_url"
    /\ n_input = <<>>
    /\ n_once = <<>>
    /\ n_twice = <<>>
    /\ c_pc = "off"
    /\ c_class = "EnrichmentService"
    /\ c_frame = "EnrichmentService"
    /\ c_depth = 0
    /\ c_domain = "example.com"
    /\ processed_domains = {}
    /\ c_scrape = "success"
    /\ c_analysis = NoAnalysis
    /\ c_update = "returns"
    /\ c_fresh = FALSE
    /\ analyze_calls = 0
    /\ update_calls = 0
    /\ c_ret = "None"
    /\ extract_raised = FALSE
    /\ l_pc = [t \in Threads |-> "off"]
    /\ l_n = [t \in Threads |-> 0]
    /\ l_sleep = [t \in Threads |-> 0]
    /\ tokens = 0
    /\ max_tokens = 0
    /\ min_interval = 1
    /\ elapsed = 0
    /\ l_lock = 0
    /\ l_calls = 0
    /\ g_pool = 0
    /\ g_created = 0
    /\ r_depth = 0
    /\ r_lib = TRUE
    /\ r_pc = [t \in Threads |-> "off"]
    /\ r_has = [t \in Threads |-> FALSE]
    /\ r_pool = [t \in Threads |-> 0]
    /\ r_cleaned = FALSE

SpecDomain == InitDomain /\ [][NextDomain]_vars

\* --------------------------------------------------------- e-mail extraction
\* WebScraper.extract_emails_from_html. A string is a sequence of pieces
\* (runs of letters and the "." character); a piece written with upper-case
\* letters is a piece of its own, which str.lower() maps to the lower-case one.
LowerPiece(p) ==
    CASE p = "Info" -> "info"
      [] p = "Example" -> "example"
      [] p = "COM" -> "com"
      [] p = "HTTP://" -> "http://"
      [] OTHER -> p
\* str.lower()
Lower(str) == [i \in 1..Len(str) |-> LowerPiece(str[i])]

\* str.endswith(suffix)
EndsWith(str, suffix) ==
    /\ Len(suffix) <= Len(str)
    /\ SubSeq(str, Len(str) - Len(suffix) + 1, Len(str)) = suffix

\* an address as the pattern finds it: the part before "@" and the part after it
Address(local, host) == [local |-> local, host |-> host]
\* email.lower()
LowerAddress(email) == Address(Lower(email.local), Lower(email.host))

\* the addresses a page may hold
Addresses ==
    { Address(<<"info">>, <<"example", ".", "com">>),
      Address(<<"Info">>, <<"example", ".", "com">>),
      Address(<<"info">>, <<"Example", ".", "COM">>),
      Address(<<"sales">>, <<"shop", ".", "example", ".", "com">>),
      Address(<<"info">>, <<"not", "example", ".", "com">>),
      Address(<<"info">>, <<"other", ".", "org">>) }
AddressLists == UNION { [1..n -> Addresses] : n \in 0..MaxEmails }
TargetDomains == { <<"example", ".", "com">>, <<"Example", ".", "COM">> }

\* a test that takes every host ending in the domain
EmailDomainEndsWithDomain(email_domain, target) == EndsWith(email_domain, Lower(target))
\* email_domain == domain.lower() or email_domain.endswith('.' + domain.lower())
EmailDomainMatches(email_domain, target) ==
    \/ email_domain = Lower(target)
    \/ EndsWith(email_domain, <<".">> \o Lower(target))

\* email.lower() not in [e.lower() for e in domain_emails]
NotYetListed(email, listed) ==
    \A k \in 1..Len(listed) : LowerAddress(listed[k]) # LowerAddress(email)

\* the loop over all_emails
RECURSIVE FilterEmails(_, _, _)
FilterEmails(found, target, listed) ==
    IF found = <<>> THEN listed
    ELSE LET email == Head(found)
             email_domain == Lower(email.host)
         IN  FilterEmails(Tail(found), target,
                          IF EmailDomainMatches(email_domain, target) /\ NotYetListed(email, listed)
                          THEN Append(listed, email) ELSE listed)

ExtractEmailsFromHtml ==
    /\ e_pc = "call"
    /\ domain_emails' = FilterEmails(all_emails, e_domain, <<>>)
    /\ e_pc' = "done"
    /\ UNCHANGED <<all_emails, e_domain>>
    /\ UNCHANGED notEmailVars

NextEmails == ExtractEmailsFromHtml

\* a call of extract_emails_from_html on some markup and some target domain
InitEmails ==
    /\ e_pc = "call"
    /\ all_emails \in AddressLists
    /\ e_domain \in TargetDomains
    /\ domain_emails = <<>>
    /\ pc = "idle"
    /\ domain = "example.com"
    /\ max_depth = 0
    /\ max_pages = 0
    /\ base_domain = <<>>
    /\ url_queue = <<>>
    /\ visited_urls = {}
    /\ scraped_pages = <<>>
    /\ pages_by_depth = <<>>
    /\ exc = "None"
    /\ pop_log = <<>>
    /\ fetch_log = <<>>
    /\ linked_urls = {}
    /\ extracted_urls = {}
    /\ f_pc = "idle"
    /\ f_entry = "scrape_url_with_html"
    /\ f_url = StartUrl("example.com")
    /\ cfg = [requests_scraper |-> TRUE, fallback_scraper |-> TRUE, selenium_class |-> TRUE,
              use_browser_pool |-> FALSE, browser_pool |-> FALSE]
    /\ light = NoResult
    /\ f_variant = "none"
    /\ f_len = 0
    /\ f_exc = "None"
    /\ f_ret = NoResult
    /\ f_escaped = "None"
    /\ driver_open = FALSE
    /\ initialized = FALSE
    /\ cleanup_calls = 0
    /\ render_calls = <<>>
    /\ pool_exc = "None"
    /\ combine_pc = "idle"
    /\ combine_pages = <<>>
    /\ combined = NoDocument
    /\ max_sessions = 1
    /\ max_requests = 1
    /\ pool = <<>>
    /\ active_sessions = 0
    /\ lock = 0
    /\ browsers = [i \in SessionIds |-> "none"]
    /\ request_count = [i \in SessionIds |-> 0]
    /\ th_pc = [t \in Threads |-> "off"]
    /\ th_session = [t \in Threads |-> 0]
    /\ th_after = [t \in Threads |-> "none"]
    /\ th_tmp = [t \in Threads |-> 0]
    /\ th_exc = [t \in Threads |-> FALSE]
    /\ ops_started = 0
    /\ b_pc = "off"
    /\ items = <<>>
    /\ behaviour = <<>>
    /\ callback = "None"
    /\ futures = <<>>
    /\ b_results = <<>>
    /\ b_errors = <<>>
    /\ processed_count = 0
    /\ b_exc = "None"
    /\ d_pc = "off"
    /\ scraping_depth = 0
    /\ d_crawl = "returns"
    /\ d_pages = <<>>
    /\ d_scraped = NoDocument
    /\ d_result = NoEnrichment
    /\ n_pc = "off"
    /\ n_fn = "normalize_url"
    /\ n_input = <<>>
    /\ n_once = <<>>
    /\ n_twice = <<>>
    /\ c_pc = "off"
    /\ c_class = "EnrichmentService"
    /\ c_frame = "EnrichmentService"
    /\ c_depth = 0
    /\ c_domain = "example.com"
    /\ processed_domains = {}
    /\ c_scrape = "success"
    /\ c_analysis = NoAnalysis
    /\ c_update = "returns"
    /\ c_fresh = FALSE
    /\ analyze_calls = 0
    /\ update_calls = 0
    /\ c_ret = "None"
    /\ extract_raised = FALSE
    /\ l_pc = [t \in Threads |-> "off"]
    /\ l_n = [t \in Threads |-> 0]
    /\ l_sleep = [t \in Threads |-> 0]
    /\ tokens = 0
    /\ max_tokens = 0
    /\ min_interval = 1
    /\ elapsed = 0
    /\ l_lock = 0
    /\ l_calls = 0
    /\ g_pool = 0
    /\ g_created = 0
    /\ r_depth = 0
    /\ r_lib = TRUE
    /\ r_pc = [t \in Threads |-> "off"]
    /\ r_has = [t \in Threads |-> FALSE]
    /\ r_pool = [t \in Threads |-> 0]
    /\ r_cleaned = FALSE

SpecEmails == InitEmails /\ [][NextEmails]_vars

\* ------------------------------------------------------------- normalization
\* utils/domain.py on strings made of pieces: a scheme with its "://", a
\* label, one of the characters "." ":" "/" "@", or a blank.
Blank == " "
\* str.strip()
RECURSIVE StripBlanks(_)
StripBlanks(str) ==
    IF str = <<>> THEN <<>>
    ELSE IF Head(str) = Blank THEN StripBlanks(Tail(str))
    ELSE IF str[Len(str)] = Blank THEN StripBlanks(SubSeq(str, 1, Len(str) - 1))
    ELSE str

\* c in str, for a one-character piece c
Contains(str, c) == \E i \in 1..Len(str) : str[i] = c
\* str.startswith(prefix)
StartsWith(str, prefix) ==
    Len(prefix) <= Len(str) /\ SubSeq(str, 1, Len(prefix)) = prefix
\* the place of the first c in str, Len(str) + 1 when there is none
FirstAt(str, c) ==
    IF Contains(str, c)
    THEN CHOOSE i \in 1..Len(str) : str[i] = c /\ \A j \in 1..(i - 1) : str[j] # c
    ELSE Len(str) + 1
\* str.split(c)[0]
BeforeFirst(str, c) == SubSeq(str, 1, FirstAt(str, c) - 1)
\* what follows the first c
AfterFirst(str, c) == SubSeq(str, FirstAt(str, c) + 1, Len(str))
\* len(text.split(c))
RECURSIVE CountParts(_, _)
CountParts(str, c) ==
    IF Contains(str, c) THEN 1 + CountParts(AfterFirst(str, c), c) ELSE 1

\* len(str)
PieceLen(p) ==
    CASE p \in {".", ":", "/", "@", Blank} -> 1
      [] p \in {"www", "com"} -> 3
      [] p \in {"info", "page", "8080"} -> 4
      [] p \in {"example", "Example", "http://", "HTTP://"} -> 7
      [] p = "https://" -> 8
      [] p = "localhost" -> 9
      [] OTHER -> 1
RECURSIVE CharLen(_)
CharLen(str) == IF str = <<>> THEN 0 ELSE PieceLen(Head(str)) + CharLen(Tail(str))

\* the value None
None == <<"<None>">>

\* normalize_url
normalize_url(url) ==
    IF url = <<>> THEN <<>>
    ELSE LET stripped == StripBlanks(url)
         IN  IF StartsWith(stripped, <<"http://">>) \/ StartsWith(stripped, <<"https://">>)
             THEN stripped
             ELSE <<"https://">> \o stripped

\* urlparse of a text that starts with a scheme: netloc runs up to the first "/"
Netloc(text) == BeforeFirst(Tail(text), "/")
UrlPath(text) == SubSeq(Tail(text), FirstAt(Tail(text), "/"), Len(Tail(text)))

\* domain_pattern: a label of letters, digits and hyphens, then one or more
\* "." + letters-only label of two letters or more
LetterLabels == {"www", "com", "info", "page", "example", "localhost"}
DomainPatternMatches(d) ==
    /\ Len(d) >= 3
    /\ Len(d) % 2 = 1
    /\ d[1] \in LetterLabels \cup {"8080"}
    /\ \A i \in 2..Len(d) : IF i % 2 = 0 THEN d[i] = "." ELSE d[i] \in LetterLabels

\* the two validations at the end of extract_domain
ValidDomain(d) ==
    /\ d # <<>>
    /\ \/ DomainPatternMatches(d)
       \/ (Contains(d, ".") /\ CharLen(d) >= MIN_DOMAIN_LENGTH)

\* if domain.startswith("www."): domain = domain[4:]
RemoveWww(d) == IF StartsWith(d, <<"www", ".">>) THEN SubSeq(d, 3, Len(d)) ELSE d

\* extract_domain from "# Handle URLs" on
DomainOfUrl(text0) ==
    LET text == IF StartsWith(text0, <<"http://">>) \/ StartsWith(text0, <<"https://">>)
                THEN text0 ELSE <<"https://">> \o text0
        netloc == Netloc(text)
        d1 == RemoveWww(IF netloc # <<>> THEN netloc ELSE UrlPath(text))
        d2 == IF Contains(d1, ":") THEN BeforeFirst(d1, ":") ELSE d1
        d3 == IF netloc = <<>> /\ Contains(d2, "/") THEN BeforeFirst(d2, "/") ELSE d2
    IN  IF ValidDomain(d3) THEN d3 ELSE None

extract_domain(raw) ==
    IF raw = <<>> THEN None
    ELSE LET text == Lower(StripBlanks(raw))
             email_domain == StripBlanks(AfterFirst(text, "@"))
         IN  IF /\ Contains(text, "@")
                /\ CountParts(text, "@") = 2
                /\ email_domain # <<>>
                /\ Contains(email_domain, ".")
             THEN email_domain
             ELSE DomainOfUrl(text)

\* the function under n_fn
Normalize(fn, x) == IF fn = "normalize_url" THEN normalize_url(x) ELSE extract_domain(x)

\* the first call
NormalizeOnce ==
    /\ n_pc = "call"
    /\ n_once' = Normalize(n_fn, n_input)
    /\ n_pc' = "once"
    /\ UNCHANGED <<n_fn, n_input, n_twice>>
    /\ UNCHANGED notNormVars

\* the call on the value the first call returned, when it returned one
NormalizeAgain ==
    /\ n_pc = "once"
    /\ n_once # None
    /\ n_twice' = Normalize(n_fn, n_once)
    /\ n_pc' = "done"
    /\ UNCHANGED <<n_fn, n_input, n_once>>
    /\ UNCHANGED notNormVars

NextNormalize == NormalizeOnce \/ NormalizeAgain

\* the texts handed to the two functions: blanks, a scheme, a user part,
\* leading "www." labels, a host, a port and a path, each present or not
Repeat(str, k) == [i \in 1..(k * Len(str)) |-> str[((i - 1) % Len(str)) + 1]]
NormInputs ==
    { ws1 \o scheme \o user \o Repeat(<<"www", ".">>, k) \o host \o port \o path \o ws2 :
        ws1 \in {<<>>, <<Blank>>}, ws2 \in {<<>>, <<Blank>>},
        scheme \in {<<>>, <<"https://">>, <<"http://">>, <<"HTTP://">>},
        user \in {<<>>, <<"info", "@">>},
        k \in 0..MaxWww,
        host \in {<<>>, <<"example", ".", "com">>, <<"Example", ".", "com">>, <<"localhost">>},
        port \in {<<>>, <<":", "8080">>},
        path \in {<<>>, <<"/", "page">>} }

InitNormalize ==
    /\ n_pc = "call"
    /\ n_fn \in {"normalize_url", "extract_domain"}
    /\ n_input \in NormInputs
    /\ n_once = <<>>
    /\ n_twice = <<>>
    /\ pc = "idle"
    /\ domain = "example.com"
    /\ max_depth = 0
    /\ max_pages = 0
    /\ base_domain = <<>>
    /\ url_queue = <<>>
    /\ visited_urls = {}
    /\ scraped_pages = <<>>
    /\ pages_by_depth = <<>>
    /\ exc = "None"
    /\ pop_log = <<>>
    /\ fetch_log = <<>>
    /\ linked_urls = {}
    /\ extracted_urls = {}
    /\ f_pc = "idle"
    /\ f_entry = "scrape_url_with_html"
    /\ f_url = StartUrl("example.com")
    /\ cfg = [requests_scraper |-> TRUE, fallback_scraper |-> TRUE, selenium_class |-> TRUE,
              use_browser_pool |-> FALSE, browser_pool |-> FALSE]
    /\ light = NoResult
    /\ f_variant = "none"
    /\ f_len = 0
    /\ f_exc = "None"
    /\ f_ret = NoResult
    /\ f_escaped = "None"
    /\ driver_open = FALSE
    /\ initialized = FALSE
    /\ cleanup_calls = 0
    /\ render_calls = <<>>
    /\ pool_exc = "None"
    /\ combine_pc = "idle"
    /\ combine_pages = <<>>
    /\ combined = NoDocument
    /\ max_sessions = 1
    /\ max_requests = 1
    /\ pool = <<>>
    /\ active_sessions = 0
    /\ lock = 0
    /\ browsers = [i \in SessionIds |-> "none"]
    /\ request_count = [i \in SessionIds |-> 0]
    /\ th_pc = [t \in Threads |-> "off"]
    /\ th_session = [t \in Threads |-> 0]
    /\ th_after = [t \in Threads |-> "none"]
    /\ th_tmp = [t \in Threads |-> 0]
    /\ th_exc = [t \in Threads |-> FALSE]
    /\ ops_started = 0
    /\ b_pc = "off"
    /\ items = <<>>
    /\ behaviour = <<>>
    /\ callback = "None"
    /\ futures = <<>>
    /\ b_results = <<>>
    /\ b_errors = <<>>
    /\ processed_count = 0
    /\ b_exc = "None"
    /\ d_pc = "off"
    /\ scraping_depth = 0
    /\ d_crawl = "returns"
    /\ d_pages = <<>>
    /\ d_scraped = NoDocument
    /\ d_result = NoEnrichment
    /\ e_pc = "off"
    /\ all_emails = <<>>
    /\ e_domain = <<>>
    /\ domain_emails = <<>>
    /\ c_pc = "off"
    /\ c_class = "EnrichmentService"
    /\ c_frame = "EnrichmentService"
    /\ c_depth = 0
    /\ c_domain = "example.com"
    /\ processed_domains = {}
    /\ c_scrape = "success"
    /\ c_analysis = NoAnalysis
    /\ c_update = "returns"
    /\ c_fresh = FALSE
    /\ analyze_calls = 0
    /\ update_calls = 0
    /\ c_ret = "None"
    /\ extract_raised = FALSE
    /\ l_pc = [t \in Threads |-> "off"]
    /\ l_n = [t \in Threads |-> 0]
    /\ l_sleep = [t \in Threads |-> 0]
    /\ tokens = 0
    /\ max_tokens = 0
    /\ min_interval = 1
    /\ elapsed = 0
    /\ l_lock = 0
    /\ l_calls = 0
    /\ g_pool = 0
    /\ g_created = 0
    /\ r_depth = 0
    /\ r_lib = TRUE
    /\ r_pc = [t \in Threads |-> "off"]
    /\ r_has = [t \in Threads |-> FALSE]
    /\ r_pool = [t \in Threads |-> 0]
    /\ r_cleaned = FALSE

SpecNormalize == InitNormalize /\ [][NextNormalize]_vars

\* ------------------------------------------------------- company enrichment
\* EnrichmentService.enrich_company and its override in
\* MultiPageEnrichmentService, which ends in super().enrich_company(company).
CompanyDomains == {"None", "abc", "example.com"}
\* a CompanyAnalysis, by the two fields whose presence the code tests
Analyses ==
    { [ok |-> TRUE, number_of_employees |-> e, annual_revenue |-> r] :
        e \in BOOLEAN, r \in BOOLEAN }

\* not domain, or len(domain) < MIN_DOMAIN_LENGTH or '.' not in domain
DomainRejected(d) == d \in {"None", "abc"}

\* "import re" inside "if annual_revenue_str:" makes re a local name of
\* enrich_company; re.search on number_of_employees reads it unbound when the
\* import did not run
ReUnbound(analysis) == analysis.number_of_employees /\ ~analysis.annual_revenue

\* entry of enrich_company (the same lines in both classes): the domain
\* tests and the processed_domains test
CompanyEntry ==
    /\ c_pc = "call"
    /\ IF DomainRejected(c_domain)
       THEN c_pc' = "returned" /\ c_ret' = "False"
       ELSE IF c_domain \in processed_domains
       THEN c_pc' = "returned" /\ c_ret' = "True"
       ELSE c_pc' = "scrape" /\ c_ret' = c_ret
    /\ UNCHANGED <<c_class, c_frame, c_depth, c_domain, processed_domains, c_scrape,
                   c_analysis, c_update, c_fresh, analyze_calls, update_calls>>
    /\ UNCHANGED notCompanyVars

\* the scrape (multi-page with consolidation, or single page), the test of
\* its success and self.processed_domains.add(domain)
CompanyScrape ==
    /\ c_pc = "scrape"
    /\ IF c_scrape = "success"
       THEN /\ processed_domains' = processed_domains \cup {c_domain}
            /\ c_pc' = "analyze"
            /\ c_ret' = c_ret
       ELSE /\ c_pc' = "returned"
            /\ c_ret' = "False"
            /\ UNCHANGED processed_domains
    /\ UNCHANGED <<c_class, c_frame, c_depth, c_domain, c_scrape, c_analysis, c_update,
                   c_fresh, analyze_calls, update_calls>>
    /\ UNCHANGED notCompanyVars

\* analyze_company and what follows it: the child class hands over to
\* super().enrich_company(company), the parent goes on to the properties
CompanyAnalyze ==
    /\ c_pc = "analyze"
    /\ analyze_calls' = analyze_calls + 1
    /\ IF ~c_analysis.ok
       THEN /\ c_pc' = "returned"
            /\ c_ret' = "False"
            /\ UNCHANGED c_frame
       ELSE IF c_frame = "MultiPageEnrichmentService"
       THEN /\ c_frame' = "EnrichmentService"
            /\ c_pc' = "call"
            /\ c_ret' = c_ret
       ELSE /\ c_pc' = "properties"
            /\ c_ret' = c_ret
            /\ UNCHANGED c_frame
    /\ UNCHANGED <<c_class, c_depth, c_domain, processed_domains, c_scrape, c_analysis,
                   c_update, c_fresh, update_calls>>
    /\ UNCHANGED notCompanyVars

\* the properties are built from the analysis
CompanyProperties ==
    /\ c_pc = "properties"
    /\ IF ReUnbound(c_analysis)
       THEN c_pc' = "returned" /\ c_ret' = "False"
       ELSE c_pc' = "update" /\ c_ret' = c_ret
    /\ UNCHANGED <<c_class, c_frame, c_depth, c_domain, processed_domains, c_scrape,
                   c_analysis, c_update, c_fresh, analyze_calls, update_calls>>
    /\ UNCHANGED notCompanyVars

\* self.hubspot.update_company(company.id, properties), then the note, whose
\* failure is logged, and return True
CompanyUpdate ==
    /\ c_pc = "update"
    /\ update_calls' = update_calls + 1
    /\ c_pc' = "returned"
    /\ c_ret' = IF c_update = "raises" THEN "False" ELSE "True"
    /\ UNCHANGED <<c_class, c_frame, c_depth, c_domain, processed_domains, c_scrape,
                   c_analysis, c_update, c_fresh, analyze_calls>>
    /\ UNCHANGED notCompanyVars

NextCompany ==
    \/ CompanyEntry
    \/ CompanyScrape
    \/ CompanyAnalyze
    \/ CompanyProperties
    \/ CompanyUpdate

\* a call of enrich_company on a service that has processed some domains
InitCompany ==
    /\ c_pc = "call"
    /\ c_class \in {"EnrichmentService", "MultiPageEnrichmentService"}
    /\ c_frame = c_class
    /\ c_depth \in IF c_class = "MultiPageEnrichmentService" THEN 0..1 ELSE {0}
    /\ c_domain \in CompanyDomains
    /\ processed_domains \in SUBSET {"example.com", "example.org"}
    /\ c_scrape \in IF c_class = "MultiPageEnrichmentService" /\ c_depth > 0
                     THEN {"success", "failed", "no pages"} ELSE {"success", "failed"}
    /\ c_analysis \in Analyses \cup {NoAnalysis}
    /\ c_update \in {"returns", "raises"}
    /\ c_fresh = (c_domain \notin processed_domains)
    /\ analyze_calls = 0
    /\ update_calls = 0
    /\ c_ret = "None"
    /\ pc = "idle"
    /\ domain = "example.com"
    /\ max_depth = 0
    /\ max_pages = 0
    /\ base_domain = <<>>
    /\ url_queue = <<>>
    /\ visited_urls = {}
    /\ scraped_pages = <<>>
    /\ pages_by_depth = <<>>
    /\ exc = "None"
    /\ pop_log = <<>>
    /\ fetch_log = <<>>
    /\ linked_urls = {}
    /\ extracted_urls = {}
    /\ f_pc = "idle"
    /\ f_entry = "scrape_url_with_html"
    /\ f_url = StartUrl("example.com")
    /\ cfg = [requests_scraper |-> TRUE, fallback_scraper |-> TRUE, selenium_class |-> TRUE,
              use_browser_pool |-> FALSE, browser_pool |-> FALSE]
    /\ light = NoResult
    /\ f_variant = "none"
    /\ f_len = 0
    /\ f_exc = "None"
    /\ f_ret = NoResult
    /\ f_escaped = "None"
    /\ driver_open = FALSE
    /\ initialized = FALSE
    /\ cleanup_calls = 0
    /\ render_calls = <<>>
    /\ pool_exc = "None"
    /\ combine_pc = "idle"
    /\ combine_pages = <<>>
    /\ combined = NoDocument
    /\ max_sessions = 1
    /\ max_requests = 1
    /\ pool = <<>>
    /\ active_sessions = 0
    /\ lock = 0
    /\ browsers = [i \in SessionIds |-> "none"]
    /\ request_count = [i \in SessionIds |-> 0]
    /\ th_pc = [t \in Threads |-> "off"]
    /\ th_session = [t \in Threads |-> 0]
    /\ th_after = [t \in Threads |-> "none"]
    /\ th_tmp = [t \in Threads |-> 0]
    /\ th_exc = [t \in Threads |-> FALSE]
    /\ ops_started = 0
    /\ b_pc = "off"
    /\ items = <<>>
    /\ behaviour = <<>>
    /\ callback = "None"
    /\ futures = <<>>
    /\ b_results = <<>>
    /\ b_errors = <<>>
    /\ processed_count = 0
    /\ b_exc = "None"
    /\ d_pc = "off"
    /\ scraping_depth = 0
    /\ d_crawl = "returns"
    /\ d_pages = <<>>
    /\ d_scraped = NoDocument
    /\ d_result = NoEnrichment
    /\ e_pc = "off"
    /\ all_emails = <<>>
    /\ e_domain = <<>>
    /\ domain_emails = <<>>
    /\ n_pc = "off"
    /\ n_fn = "normalize_url"
    /\ n_input = <<>>
    /\ n_once = <<>>
    /\ n_twice = <<>>
    /\ extract_raised = FALSE
    /\ l_pc = [t \in Threads |-> "off"]
    /\ l_n = [t \in Threads |-> 0]
    /\ l_sleep = [t \in Threads |-> 0]
    /\ tokens = 0
    /\ max_tokens = 0
    /\ min_interval = 1
    /\ elapsed = 0
    /\ l_lock = 0
    /\ l_calls = 0
    /\ g_pool = 0
    /\ g_created = 0
    /\ r_depth = 0
    /\ r_lib = TRUE
    /\ r_pc = [t \in Threads |-> "off"]
    /\ r_has = [t \in Threads |-> FALSE]
    /\ r_pool = [t \in Threads |-> 0]
    /\ r_cleaned = FALSE

SpecCompany == InitCompany /\ [][NextCompany]_vars

\* ------------------------------------------------------------- rate limiter
\* ThreadSafeRateLimiter, with time counted in ticks of 1 / refill_rate seconds
\* (one token is refilled per tick).

Min2(a, b) == IF a <= b THEN a ELSE b
Max2(a, b) == IF a >= b THEN a ELSE b

\* _refill: self.tokens = min(self.tokens + new_tokens, self.max_tokens)
RefillUncapped(tok, new_tokens, cap) == tok + new_tokens
RefilledTokens(tok, new_tokens, cap) == Min2(tok + new_tokens, cap)

\* wait_time = max(tokens_needed / self.refill_rate, self.min_interval)
WaitTime(tokens_needed) == Max2(tokens_needed, min_interval)

\* a thread calls acquire(n)
LimiterCall(t) ==
    /\ l_pc[t] = "idle"
    /\ l_calls < MaxCalls
    /\ l_calls' = l_calls + 1
    /\ \E n \in 1..(MaxBurst + 1) : l_n' = [l_n EXCEPT ![t] = n]
    /\ l_pc' = [l_pc EXCEPT ![t] = "lock"]
    /\ UNCHANGED <<l_sleep, tokens, max_tokens, min_interval, elapsed, l_lock>>
    /\ UNCHANGED notLimitVars

\* "with self.lock:" on entry, self.lock.acquire() after the sleep
LimiterLock(t) ==
    /\ l_pc[t] = "lock"
    /\ l_lock = 0
    /\ l_lock' = t
    /\ l_pc' = [l_pc EXCEPT ![t] = "refill"]
    /\ UNCHANGED <<l_n, l_sleep, tokens, max_tokens, min_interval, elapsed, l_calls>>
    /\ UNCHANGED notLimitVars

\* self._refill()
Refill(t) ==
    /\ l_pc[t] = "refill"
    /\ tokens' = RefilledTokens(tokens, elapsed, max_tokens)
    /\ elapsed' = 0
    /\ l_pc' = [l_pc EXCEPT ![t] = "test"]
    /\ UNCHANGED <<l_n, l_sleep, max_tokens, min_interval, l_lock, l_calls>>
    /\ UNCHANGED notLimitVars

\* if self.tokens >= tokens; otherwise the lock is released and the thread sleeps
TestTokens(t) ==
    /\ l_pc[t] = "test"
    /\ IF tokens >= l_n[t]
       THEN /\ l_pc' = [l_pc EXCEPT ![t] = "deduct"]
            /\ UNCHANGED <<l_sleep, l_lock>>
       ELSE /\ l_sleep' = [l_sleep EXCEPT ![t] = WaitTime(l_n[t] - tokens)]
            /\ l_lock' = 0
            /\ l_pc' = [l_pc EXCEPT ![t] = "sleep"]
    /\ UNCHANGED <<l_n, tokens, max_tokens, min_interval, elapsed, l_calls>>
    /\ UNCHANGED notLimitVars

\* self.tokens -= tokens; return, which leaves the with block and frees the lock
Deduct(t) ==
    /\ l_pc[t] = "deduct"
    /\ tokens' = tokens - l_n[t]
    /\ l_lock' = 0
    /\ l_pc' = [l_pc EXCEPT ![t] = "idle"]
    /\ UNCHANGED <<l_n, l_sleep, max_tokens, min_interval, elapsed, l_calls>>
    /\ UNCHANGED notLimitVars

\* time.sleep(wait_time) returns
Wake(t) ==
    /\ l_pc[t] = "sleep"
    /\ l_sleep[t] = 0
    /\ l_pc' = [l_pc EXCEPT ![t] = "lock"]
    /\ UNCHANGED <<l_n, l_sleep, tokens, max_tokens, min_interval, elapsed, l_lock, l_calls>>
    /\ UNCHANGED notLimitVars

\* one tick of time.time(); an elapsed time that fills the bucket is not counted further
Tick ==
    /\ \A t \in Threads : l_pc[t] # "off"
    /\ elapsed' = Min2(elapsed + 1, max_tokens)
    /\ l_sleep' = [t \in Threads |-> Max2(l_sleep[t] - 1, 0)]
    /\ UNCHANGED <<l_pc, l_n, tokens, max_tokens, min_interval, l_lock, l_calls>>
    /\ UNCHANGED notLimitVars

LimiterStep(t) ==
    \/ LimiterLock(t)
    \/ Refill(t)
    \/ TestTokens(t)
    \/ Deduct(t)
    \/ Wake(t)

NextLimiter == Tick \/ \E t \in Threads : LimiterCall(t) \/ LimiterStep(t)

\* a ThreadSafeRateLimiter after __init__, shared by the threads
InitLimiter ==
    /\ l_pc = [t \in Threads |-> "idle"]
    /\ l_n = [t \in Threads |-> 0]
    /\ l_sleep = [t \in Threads |-> 0]
    /\ max_tokens \in 1..MaxBurst
    /\ tokens = max_tokens
    /\ min_interval \in 1..MaxInterval
    /\ elapsed = 0
    /\ l_lock = 0
    /\ l_calls = 0
    /\ pc = "idle"
    /\ domain = "example.com"
    /\ max_depth = 0
    /\ max_pages = 0
    /\ base_domain = <<>>
    /\ url_queue = <<>>
    /\ visited_urls = {}
    /\ scraped_pages = <<>>
    /\ pages_by_depth = <<>>
    /\ exc = "None"
    /\ pop_log = <<>>
    /\ fetch_log = <<>>
    /\ linked_urls = {}
    /\ extracted_urls = {}
    /\ extract_raised = FALSE
    /\ f_pc = "idle"
    /\ f_entry = "scrape_url_with_html"
    /\ f_url = StartUrl("example.com")
    /\ cfg = [requests_scraper |-> TRUE, fallback_scraper |-> TRUE, selenium_class |-> TRUE,
              use_browser_pool |-> FALSE, browser_pool |-> FALSE]
    /\ light = NoResult
    /\ f_variant = "none"
    /\ f_len = 0
    /\ f_exc = "None"
    /\ f_ret = NoResult
    /\ f_escaped = "None"
    /\ driver_open = FALSE
    /\ initialized = FALSE
    /\ cleanup_calls = 0
    /\ render_calls = <<>>
    /\ pool_exc = "None"
    /\ combine_pc = "idle"
    /\ combine_pages = <<>>
    /\ combined = NoDocument
    /\ max_sessions = 1
    /\ max_requests = 1
    /\ pool = <<>>
    /\ active_sessions = 0
    /\ lock = 0
    /\ browsers = [i \in SessionIds |-> "none"]
    /\ request_count = [i \in SessionIds |-> 0]
    /\ th_pc = [t \in Threads |-> "off"]
    /\ th_session = [t \in Threads |-> 0]
    /\ th_after = [t \in Threads |-> "none"]
    /\ th_tmp = [t \in Threads |-> 0]
    /\ th_exc = [t \in Threads |-> FALSE]
    /\ ops_started = 0
    /\ b_pc = "off"
    /\ items = <<>>
    /\ behaviour = <<>>
    /\ callback = "None"
    /\ futures = <<>>
    /\ b_results = <<>>
    /\ b_errors = <<>>
    /\ processed_count = 0
    /\ b_exc = "None"
    /\ d_pc = "off"
    /\ scraping_depth = 0
    /\ d_crawl = "returns"
    /\ d_pages = <<>>
    /\ d_scraped = NoDocument
    /\ d_result = NoEnrichment
    /\ e_pc = "off"
    /\ all_emails = <<>>
    /\ e_domain = <<>>
    /\ domain_emails = <<>>
    /\ n_pc = "off"
    /\ n_fn = "normalize_url"
    /\ n_input = <<>>
    /\ n_once = <<>>
    /\ n_twice = <<>>
    /\ c_pc = "off"
    /\ c_class = "EnrichmentService"
    /\ c_frame = "EnrichmentService"
    /\ c_depth = 0
    /\ c_domain = "example.com"
    /\ processed_domains = {}
    /\ c_scrape = "success"
    /\ c_analysis = NoAnalysis
    /\ c_update = "returns"
    /\ c_fresh = FALSE
    /\ analyze_calls = 0
    /\ update_calls = 0
    /\ c_ret = "None"
    /\ g_pool = 0
    /\ g_created = 0
    /\ r_depth = 0
    /\ r_lib = TRUE
    /\ r_pc = [t \in Threads |-> "off"]
    /\ r_has = [t \in Threads |-> FALSE]
    /\ r_pool = [t \in Threads |-> 0]
    /\ r_cleaned = FALSE

SpecLimiter == InitLimiter /\ [][NextLimiter]_vars

\* Time advances, and a thread that can take a step of its acquire call takes
\* it; the lock is a plain threading.Lock, which promises no order among the
\* threads waiting for it.
FairSpecLimiter ==
    SpecLimiter /\ WF_vars(Tick) /\ \A t \in Threads : WF_vars(LimiterStep(t))

\* ------------------------------------------------------- global browser pool
\* get_browser_pool / cleanup_browser_pool and the thread-local services of
\* ConcurrentEnrichmentService.

\* _get_enrichment_service: the thread's first call builds its service; with
\* depth > 0 the scraper is MultiPageScraper(use_browser_pool=False), with
\* depth 0 it is WebScraper(), whose __init__ calls get_browser_pool unless the
\* scraper library cannot be imported
GetEnrichmentService(t) ==
    /\ r_pc[t] = "idle"
    /\ IF r_has[t]
       THEN UNCHANGED <<r_pc, r_has>>
       ELSE IF r_depth > 0 \/ ~r_lib
       THEN /\ r_has' = [r_has EXCEPT ![t] = TRUE]
            /\ UNCHANGED r_pc
       ELSE /\ r_pc' = [r_pc EXCEPT ![t] = "test"]
            /\ UNCHANGED r_has
    /\ UNCHANGED <<g_pool, g_created, r_depth, r_lib, r_pool, r_cleaned>>
    /\ UNCHANGED notRegistryVars

\* get_browser_pool: if _browser_pool is None
GetBrowserPoolTest(t) ==
    /\ r_pc[t] = "test"
    /\ r_pc' = [r_pc EXCEPT ![t] = IF g_pool = 0 THEN "create" ELSE "return"]
    /\ UNCHANGED <<g_pool, g_created, r_depth, r_lib, r_has, r_pool, r_cleaned>>
    /\ UNCHANGED notRegistryVars

\* get_browser_pool: _browser_pool = BrowserPool()
GetBrowserPoolCreate(t) ==
    /\ r_pc[t] = "create"
    /\ g_created' = g_created + 1
    /\ g_pool' = g_created + 1
    /\ r_pc' = [r_pc EXCEPT ![t] = "return"]
    /\ UNCHANGED <<r_depth, r_lib, r_has, r_pool, r_cleaned>>
    /\ UNCHANGED notRegistryVars

\* a scraper that builds a BrowserPool of its own instead of keeping the global one
OwnPoolReturn(t) ==
    /\ r_pc[t] = "return"
    /\ g_created' = g_created + 1
    /\ r_pool' = [r_pool EXCEPT ![t] = g_created + 1]
    /\ r_has' = [r_has EXCEPT ![t] = TRUE]
    /\ r_pc' = [r_pc EXCEPT ![t] = "idle"]
    /\ UNCHANGED <<g_pool, r_depth, r_lib, r_cleaned>>
    /\ UNCHANGED notRegistryVars

\* get_browser_pool: return _browser_pool; WebScraper.__init__ stores it and
\* _get_enrichment_service stores the service in the thread-local
GetBrowserPoolReturn(t) ==
    /\ r_pc[t] = "return"
    /\ r_pool' = [r_pool EXCEPT ![t] = g_pool]
    /\ r_has' = [r_has EXCEPT ![t] = TRUE]
    /\ r_pc' = [r_pc EXCEPT ![t] = "idle"]
    /\ UNCHANGED <<g_pool, g_created, r_depth, r_lib, r_cleaned>>
    /\ UNCHANGED notRegistryVars

\* cleanup_browser_pool: if _browser_pool
CleanupTest(t) ==
    /\ r_pc[t] = "idle"
    /\ ~r_cleaned
    /\ r_cleaned' = TRUE
    /\ r_pc' = [r_pc EXCEPT ![t] = IF g_pool # 0 THEN "cleanup" ELSE "idle"]
    /\ UNCHANGED <<g_pool, g_created, r_depth, r_lib, r_has, r_pool>>
    /\ UNCHANGED notRegistryVars

\* cleanup_browser_pool: _browser_pool.close_all(); _browser_pool = None
CleanupReset(t) ==
    /\ r_pc[t] = "cleanup"
    /\ g_pool' = 0
    /\ r_pc' = [r_pc EXCEPT ![t] = "idle"]
    /\ UNCHANGED <<g_created, r_depth, r_lib, r_has, r_pool, r_cleaned>>
    /\ UNCHANGED notRegistryVars

NextRegistry ==
    \E t \in Threads :
        \/ GetEnrichmentService(t)
        \/ GetBrowserPoolTest(t)
        \/ GetBrowserPoolCreate(t)
        \/ GetBrowserPoolReturn(t)
        \/ CleanupTest(t)
        \/ CleanupReset(t)

\* a ConcurrentEnrichmentService after __init__, no pool created yet
InitRegistry ==
    /\ g_pool = 0
    /\ g_created = 0
    /\ r_depth \in 0..MaxDepthBound
    /\ r_lib \in BOOLEAN
    /\ r_pc = [t \in Threads |-> "idle"]
    /\ r_has = [t \in Threads |-> FALSE]
    /\ r_pool = [t \in Threads |-> 0]
    /\ r_cleaned = FALSE
    /\ pc = "idle"
    /\ domain = "example.com"
    /\ max_depth = 0
    /\ max_pages = 0
    /\ base_domain = <<>>
    /\ url_queue = <<>>
    /\ visited_urls = {}
    /\ scraped_pages = <<>>
    /\ pages_by_depth = <<>>
    /\ exc = "None"
    /\ pop_log = <<>>
    /\ fetch_log = <<>>
    /\ linked_urls = {}
    /\ extracted_urls = {}
    /\ extract_raised = FALSE
    /\ f_pc = "idle"
    /\ f_entry = "scrape_url_with_html"
    /\ f_url = StartUrl("example.com")
    /\ cfg = [requests_scraper |-> TRUE, fallback_scraper |-> TRUE, selenium_class |-> TRUE,
              use_browser_pool |-> FALSE, browser_pool |-> FALSE]
    /\ light = NoResult
    /\ f_variant = "none"
    /\ f_len = 0
    /\ f_exc = "None"
    /\ f_ret = NoResult
    /\ f_escaped = "None"
    /\ driver_open = FALSE
    /\ initialized = FALSE
    /\ cleanup_calls = 0
    /\ render_calls = <<>>
    /\ pool_exc = "None"
    /\ combine_pc = "idle"
    /\ combine_pages = <<>>
    /\ combined = NoDocument
    /\ max_sessions = 1
    /\ max_requests = 1
    /\ pool = <<>>
    /\ active_sessions = 0
    /\ lock = 0
    /\ browsers = [i \in SessionIds |-> "none"]
    /\ request_count = [i \in SessionIds |-> 0]
    /\ th_pc = [t \in Threads |-> "off"]
    /\ th_session = [t \in Threads |-> 0]
    /\ th_after = [t \in Threads |-> "none"]
    /\ th_tmp = [t \in Threads |-> 0]
    /\ th_exc = [t \in Threads |-> FALSE]
    /\ ops_started = 0
    /\ b_pc = "off"
    /\ items = <<>>
    /\ behaviour = <<>>
    /\ callback = "None"
    /\ futures = <<>>
    /\ b_results = <<>>
    /\ b_errors = <<>>
    /\ processed_count = 0
    /\ b_exc = "None"
    /\ d_pc = "off"
    /\ scraping_depth = 0
    /\ d_crawl = "returns"
    /\ d_pages = <<>>
    /\ d_scraped = NoDocument
    /\ d_result = NoEnrichment
    /\ e_pc = "off"
    /\ all_emails = <<>>
    /\ e_domain = <<>>
    /\ domain_emails = <<>>
    /\ n_pc = "off"
    /\ n_fn = "normalize_url"
    /\ n_input = <<>>
    /\ n_once = <<>>
    /\ n_twice = <<>>
    /\ c_pc = "off"
    /\ c_class = "EnrichmentService"
    /\ c_frame = "EnrichmentService"
    /\ c_depth = 0
    /\ c_domain = "example.com"
    /\ processed_domains = {}
    /\ c_scrape = "success"
    /\ c_analysis = NoAnalysis
    /\ c_update = "returns"
    /\ c_fresh = FALSE
    /\ analyze_calls = 0
    /\ update_calls = 0
    /\ c_ret = "None"
    /\ l_pc = [t \in Threads |-> "off"]
    /\ l_n = [t \in Threads |-> 0]
    /\ l_sleep = [t \in Threads |-> 0]
    /\ tokens = 0
    /\ max_tokens = 0
    /\ min_interval = 1
    /\ elapsed = 0
    /\ l_lock = 0
    /\ l_calls = 0

SpecRegistry == InitRegistry /\ [][NextRegistry]_vars

\* ------------------------------------------------------------------ claims
Last(seq) == seq[Len(seq)]

\* C1. Page budget: in every state of the crawl, and so on return, the results
\* map holds at most max_pages entries, whatever the pages link to, whichever
\* fetches fail and whatever max_depth >= 0 is.
PageBudget ==
    /\ Len(scraped_pages) <= max_pages
    /\ Cardinality(Keys(scraped_pages)) <= max_pages

\* The budget ended a crawl that still had URLs queued.
PageBudgetWitness ==
    /\ pc = "done"
    /\ max_depth >= 1
    /\ max_pages >= 2
    /\ Len(scraped_pages) = max_pages
    /\ url_queue # <<>>

\* C2. Depth bound: with max_depth = d >= 0, every fetched URL was taken from
\* the queue with a depth of at most d, every results key is such a URL, and
\* the queue never holds a pair with a depth above d.
DepthBound ==
    max_depth >= 0 =>
        /\ \A i \in 1..Len(fetch_log) : fetch_log[i].depth <= max_depth
        /\ \A i \in 1..Len(url_queue) : url_queue[i][2] <= max_depth
        /\ \A k \in Keys(scraped_pages) :
              \E i \in 1..Len(fetch_log) :
                  fetch_log[i].url = k /\ fetch_log[i].depth <= max_depth

\* A page at the deepest level was fetched with success and carried internal
\* links, which were not followed.
DepthBoundWitness ==
    /\ pc = "done"
    /\ max_depth >= 1
    /\ \E i \in 1..Len(fetch_log) :
          /\ fetch_log[i].depth = max_depth
          /\ fetch_log[i].success
    /\ \E u \in linked_urls : IsInternal(u, base_domain) /\ u \notin extracted_urls
    /\ Len(scraped_pages) < max_pages

\* C3. No duplicate fetches: within one crawl no URL is handed to the page
\* fetcher twice and no URL is the key of two results entries, also when the
\* URL was discovered on several pages or at several depths.
NoDuplicateFetch ==
    /\ \A i, j \in 1..Len(fetch_log) :
          i # j => fetch_log[i].url # fetch_log[j].url
    /\ \A i, j \in 1..Len(scraped_pages) :
          i # j => scraped_pages[i].key # scraped_pages[j].key
    /\ Keys(scraped_pages) = { fetch_log[i].url : i \in 1..Len(fetch_log) }

\* A URL that was queued at two depths came to the front of the queue twice.
NoDuplicateFetchWitness ==
    \E i, j \in 1..Len(pop_log) :
        /\ i < j
        /\ pop_log[i][1] = pop_log[j][1]
        /\ pop_log[i][2] # pop_log[j][2]

\* C9. A failed fetch does not abort the crawl: the step that fetches a page
\* with success = false stores the failed result under the popped URL, appends
\* nothing to the queue, and leaves the crawl in its loop; the crawl returns
\* only from a state where the queue is empty or the budget is reached.
FailedFetchStep ==
    /\ Len(fetch_log') = Len(fetch_log) + 1
    /\ ~Last(fetch_log').success

CrawlNeverThrows == pc # "raised" /\ exc = "None"

\* The lightweight attempt ran and did not give a usable page: it threw,
\* reported failure, or gave fewer than MIN_CONTENT_LENGTH characters.
LightFellShort ==
    /\ light.kind # "none"
    /\ \/ light.kind = "raised"
       \/ ~light.success
       \/ light.len < MIN_CONTENT_LENGTH

\* C4. Escalation: when the lightweight fetch threw, reported failure or gave
\* fewer than MIN_CONTENT_LENGTH characters, a rendering function has been
\* called by the time the fetcher returns, and the value returned is the one
\* the rendering function gave.
Escalation ==
    (f_pc = "done" /\ LightFellShort) =>
        /\ render_calls # <<>>
        /\ f_ret.kind = "result"
        /\ f_ret.source = "selenium"
        /\ f_ret # light

\* A lightweight fetch succeeded with too little text and the fetcher returned
\* the page the rendering engine read.
EscalationWitness ==
    /\ f_pc = "done"
    /\ light.kind = "result"
    /\ light.success
    /\ light.len = MIN_CONTENT_LENGTH - 1
    /\ render_calls # <<>>
    /\ f_ret.source = "selenium"
    /\ f_ret.success

\* C5. Sufficient lightweight content ends the fetch: when the lightweight
\* fetch succeeds with at least MIN_CONTENT_LENGTH characters, exactly
\* MIN_CONTENT_LENGTH included, the fetcher returns that result with
\* success = true and calls no rendering function.
SufficientLightweightEndsFetch ==
    (f_pc = "done" /\ light.kind = "result" /\ light.success
                   /\ light.len >= MIN_CONTENT_LENGTH) =>
        /\ f_ret = light
        /\ f_ret.success
        /\ render_calls = <<>>

\* a rendering function read the page and reached its return without an exception
RenderCompleted ==
    /\ f_pc = "done"
    /\ f_ret.source = "selenium"
    /\ f_exc = "None"
    /\ f_ret.error \notin {"Failed to create scraper", "Invalid domain"}

\* C6. Rendered-fetch threshold: a rendering fetch that completes without an
\* exception returns success = true exactly when the body text has at least
\* MIN_CONTENT_LENGTH characters, and otherwise success = false with an
\* insufficient-content error that is no transport exception's message.
RenderedThreshold ==
    RenderCompleted =>
        /\ f_ret.success <=> f_len >= MIN_CONTENT_LENGTH
        /\ ~f_ret.success =>
              /\ f_ret.error \in InsufficientContentErrors
              /\ f_ret.error \notin RenderExceptionMessages

\* C7. Rendering-session cleanup: a rendering fetch that initialized a browser
\* session has cleaned that session up by the time it returns, on the success,
\* insufficient-content and exception paths, the shared fallback session
\* included.
SessionCleanedUp ==
    (f_pc = "done" /\ initialized) => cleanup_calls >= 1

\* scrape_url_with_html lets no exception out (used by the crawl model)
HtmlFetcherNeverRaises ==
    f_entry = "scrape_url_with_html" => (f_pc # "raised" /\ f_escaped = "None")

\* C8. The page fetcher never raises: scrape_url_with_html and scrape_url
\* return a result for any URL and any transport behaviour, and when both
\* attempts failed by exception the result has success = false and the
\* exception's message as error.
FetcherNeverRaises ==
    /\ f_pc # "raised"
    /\ f_escaped = "None"
    /\ (f_pc = "done" /\ light.kind # "none" /\ ~light.success /\ f_exc # "None") =>
          /\ ~f_ret.success
          /\ f_ret.error = f_exc

\* C11. Crawl termination: every call of the crawl comes to an end, also when
\* the pages link to each other in cycles or keep yielding new links, and in
\* the state it ends in the queue is empty or the results map holds exactly
\* max_pages entries.
CrawlTerminates ==
    /\ <>(pc \in {"done", "raised"})
    /\ [](pc \in {"done", "raised"} =>
            (url_queue = <<>> \/ Len(scraped_pages) = max_pages))

\* A crawl whose pages link back to the seed ended on its budget with URLs
\* still queued.
CrawlTerminatesWitness ==
    /\ pc = "done"
    /\ StartUrl(domain) \in linked_urls
    /\ Len(scraped_pages) = max_pages
    /\ max_pages >= 2
    /\ url_queue # <<>>

\* The same-domain link graph as far as the crawl came to see it: the seed and
\* the internal links on the pages it fetched. A page that was not fetched is
\* taken to carry no link, the smallest site that agrees with the run.
SiteNodes ==
    {StartUrl(domain)} \cup { u \in linked_urls : IsInternal(u, base_domain) }

FetchCount(u) == Cardinality({ i \in 1..Len(fetch_log) : fetch_log[i].url = u })

\* C12. Small-site coverage, as stated: when the same-domain link graph
\* reachable from the seed has fewer than max_pages nodes, the crawl ends with
\* every reachable node in results, each fetched exactly once.
SmallSiteCoverage ==
    (pc = "done" /\ Cardinality(SiteNodes) < max_pages) =>
        /\ SiteNodes \subseteq Keys(scraped_pages)
        /\ \A u \in SiteNodes : FetchCount(u) = 1

\* C12, amended: when the crawl returns with fewer than max_pages results, the
\* queue is exhausted and results hold the seed and every link the extraction
\* returned for a page fetched with success at a depth below max_depth, each
\* fetched exactly once.
SmallSiteCoverageWithinDepth ==
    (pc = "done" /\ Len(scraped_pages) < max_pages) =>
        /\ url_queue = <<>>
        /\ StartUrl(domain) \in Keys(scraped_pages)
        /\ extracted_urls \subseteq Keys(scraped_pages)
        /\ \A u \in {StartUrl(domain)} \cup extracted_urls : FetchCount(u) = 1
        /\ \A k \in Keys(scraped_pages) : FetchCount(k) = 1

\* A crawl of a small site returned below its budget after following links
\* over two levels, with a link on a deepest page left unfollowed.
SmallSiteCoverageWitness ==
    /\ pc = "done"
    /\ Len(scraped_pages) < max_pages
    /\ Len(scraped_pages) >= 3
    /\ \E i \in 1..Len(fetch_log) : fetch_log[i].depth = 2
    /\ \E u \in linked_urls : IsInternal(u, base_domain) /\ u \notin Keys(scraped_pages)

\* C13. BFS order: results entry i is the page of fetch i, the depths of the
\* results entries never decrease in insertion order (every page of depth d is
\* fetched before any page of depth d+1), the depths in the queue never
\* decrease from front to back, and no queued pair is shallower than the page
\* fetched last.
BfsOrder ==
    /\ Len(fetch_log) = Len(scraped_pages)
    /\ \A i \in 1..Len(scraped_pages) : scraped_pages[i].key = fetch_log[i].url
    /\ \A i, j \in 1..Len(fetch_log) :
          i < j => fetch_log[i].depth <= fetch_log[j].depth
    /\ \A i, j \in 1..Len(url_queue) :
          i < j => url_queue[i][2] <= url_queue[j][2]
    /\ (fetch_log # <<>> /\ url_queue # <<>>) =>
          Last(fetch_log).depth <= Head(url_queue)[2]

\* Two pages of depth 1 were fetched, the first of them queued a page of
\* depth 2 behind the second, and the page of depth 2 was fetched last.
BfsOrderWitness ==
    /\ Len(scraped_pages) = 4
    /\ fetch_log[2].depth = 1
    /\ fetch_log[3].depth = 1
    /\ fetch_log[4].depth = 2

\* the host, without a leading www., is the base domain or ends with "." + base domain
HostWithinBase(url) ==
    LET h == StripWww(url.host)
        n == Len(h) - Len(base_domain)
    IN  \/ h = base_domain
        \/ n > 0 /\ [i \in 1..Len(base_domain) |-> h[n + i]] = base_domain

\* C14. Same-domain only: every URL in the queue, taken from the queue,
\* fetched or stored in results is the seed or has a host within the base
\* domain, and no link to another host that a fetched page carried is ever
\* queued, taken from the queue or fetched.
SameDomainOnly ==
    /\ \A i \in 1..Len(url_queue) :
          url_queue[i] = <<StartUrl(domain), 0>> \/ HostWithinBase(url_queue[i][1])
    /\ \A i \in 1..Len(pop_log) :
          pop_log[i] = <<StartUrl(domain), 0>> \/ HostWithinBase(pop_log[i][1])
    /\ \A k \in Keys(scraped_pages) \cup visited_urls :
          k = StartUrl(domain) \/ HostWithinBase(k)
    /\ \A u \in linked_urls :
          ~HostWithinBase(u) =>
              /\ u \notin Keys(scraped_pages) \cup visited_urls
              /\ \A i \in 1..Len(url_queue) : url_queue[i][1] # u
              /\ \A i \in 1..Len(pop_log) : pop_log[i][1] # u
              /\ \A i \in 1..Len(fetch_log) : fetch_log[i].url # u

\* With max_depth 1 the seed page linked to a page of the domain and to another
\* host; the crawl returned with the seed and the page of the domain.
SameDomainOnlyWitness ==
    /\ pc = "done"
    /\ max_depth = 1
    /\ Len(scraped_pages) = 2
    /\ Len(scraped_pages) < max_pages
    /\ \E u \in linked_urls : u.host = ExternalHost
    /\ \E u \in extracted_urls : u.path = "/about"

\* the key of the claim: no fragment, no trailing slash, no leading www.
DedupKey(url) == [host |-> StripWww(url.host), path |-> url.path]

\* C15. Deduplication key: two discovered links that differ only by a
\* fragment, a trailing slash or a leading www. on the host have the same
\* deduplication key, so no two of the pages fetched after the seed differ
\* only in that way.
OneFetchPerDedupKey ==
    \A i, j \in 2..Len(fetch_log) :
        i # j => DedupKey(fetch_log[i].url) # DedupKey(fetch_log[j].url)

\* entry i of the consolidated results map is successful with non-empty text
UsableAt(i) == combine_pages[i].success /\ combine_pages[i].content # <<>>
SomeUsable == \E i \in 1..Len(combine_pages) : UsableAt(i)

\* C16. Consolidation outcome: create_combined_content returns success = true
\* with no error exactly when some entry is successful with non-empty text;
\* on an empty map it returns success = false, error "No pages scraped", empty
\* content and no e-mails; on a non-empty map without such an entry it returns
\* success = false, error "No successful pages", empty content and no e-mails.
ConsolidationOutcome ==
    combine_pc = "done" =>
        /\ (combined.success /\ combined.error = "None") <=> SomeUsable
        /\ combined.success <=> combined.error = "None"
        /\ combine_pages = <<>> =>
              /\ ~combined.success
              /\ combined.error = "No pages scraped"
              /\ combined.content = <<>>
              /\ combined.emails = {}
        /\ (combine_pages # <<>> /\ ~SomeUsable) =>
              /\ ~combined.success
              /\ combined.error = "No successful pages"
              /\ combined.content = <<>>
              /\ combined.emails = {}

\* A map of one failed page that carries text and e-mails and one successful
\* page with empty text was consolidated.
ConsolidationOutcomeWitness ==
    /\ combine_pc = "done"
    /\ Len(combine_pages) = 2
    /\ ~combine_pages[1].success
    /\ combine_pages[1].content # <<>>
    /\ combine_pages[1].emails # {}
    /\ combine_pages[2].success
    /\ combine_pages[2].content = <<>>
    /\ combined.error = "No successful pages"

\* C17. Consolidated e-mails: the e-mails of the consolidated document are
\* exactly the union, without duplicates, of the e-mail sets of every entry of
\* the results map.
ConsolidatedEmailsOfEveryPage ==
    combine_pc = "done" =>
        combined.emails = UNION { combine_pages[i].emails : i \in 1..Len(combine_pages) }

\* the entries that are successful with non-empty text, in insertion order
UsableEntries == SelectSeq(combine_pages, LAMBDA e : e.success /\ e.content # <<>>)
\* the "=== Page: <url> ===" lines of the consolidated content, in order
SectionHeaders == SelectSeq(combined.content, LAMBDA x : x.kind = "header")
EntryOf(url) ==
    combine_pages[CHOOSE i \in 1..Len(combine_pages) : combine_pages[i].key = url]

\* C18. Consolidated content: the content holds one section per entry that is
\* successful with non-empty text, in the insertion order of the results map,
\* and no section for a failed or empty page; a section is the
\* "=== Page: <url> ===" line of the entry's URL followed by the entry's text,
\* and the content holds nothing but these sections.
ConsolidatedContent ==
    combine_pc = "done" =>
        LET content == combined.content
        IN  /\ Len(SectionHeaders) = Len(UsableEntries)
            /\ \A i \in 1..Len(SectionHeaders) :
                  SectionHeaders[i].url = UsableEntries[i].key
            /\ content # <<>> => content[1].kind = "header"
            /\ \A p \in 1..Len(content) :
                  content[p].kind = "header" =>
                      LET text == EntryOf(content[p].url).content
                          q == p + 1 + Len(text)
                      IN  /\ q <= Len(content)
                          /\ content[p + 1] = Ws
                          /\ SubSeq(content, p + 2, q) = text
                          /\ \/ q = Len(content)
                             \/ /\ q + 2 <= Len(content)
                                /\ content[q + 1] = Ws
                                /\ content[q + 2].kind = "header"

\* Two successful pages with different texts were consolidated into two
\* sections, the first page's section first.
ConsolidatedContentWitness ==
    /\ combine_pc = "done"
    /\ Len(combine_pages) = 2
    /\ UsableAt(1)
    /\ UsableAt(2)
    /\ combine_pages[1].content # combine_pages[2].content
    /\ Len(SectionHeaders) = 2
    /\ SectionHeaders[1].url = combine_pages[1].key

\* C19. Representative URL: when a crawl with max_pages >= 1 has returned and
\* its results were consolidated, the url of the consolidated document is the
\* seed URL of the crawl, whether the seed fetch succeeded or failed and
\* whatever other pages were fetched.
RepresentativeUrl ==
    (pc = "combine" /\ combine_pc = "done" /\ max_pages >= 1) =>
        /\ combine_pages = scraped_pages
        /\ combined.url = StartUrl(domain)

\* A crawl of three or more pages, one of them failed, was consolidated under
\* the seed URL.
RepresentativeUrlWitness ==
    /\ pc = "combine"
    /\ combine_pc = "done"
    /\ Len(combine_pages) >= 3
    /\ ~combine_pages[2].success
    /\ combined.success
    /\ combined.url = StartUrl(domain)

\* the browser sessions the pool created and has not closed, idle or checked out
OpenSessions == { i \in SessionIds : browsers[i] = "open" }

\* C20. Pool capacity: under any interleaving of get_browser uses and
\* close_all calls by the threads sharing one pool, the number of open browser
\* sessions the pool created never exceeds max_sessions.
PoolCapacity == Cardinality(OpenSessions) <= max_sessions

\* a thread holds session s from the moment get_browser obtained it until the
\* session went back to the queue or was closed
Holds(t, s) == s # 0 /\ th_session[t] = s

PoolSessions == { pool[i] : i \in 1..Len(pool) }

\* C21: whatever the interleaving of the get_browser calls of several threads,
\* no session is held by two callers at once, and a session that a caller holds
\* is not in the queue: it is handed out again only after its holder put it back.
SessionExclusivity ==
    /\ \A t1 \in Threads : \A t2 \in Threads \ {t1} :
           \A s \in SessionIds : ~(Holds(t1, s) /\ Holds(t2, s))
    /\ \A t \in Threads : th_session[t] \notin PoolSessions
    /\ \A i \in 1..Len(pool) : \A j \in 1..Len(pool) : pool[i] = pool[j] => i = j

\* two callers are inside their with blocks, one of them with a session that
\* was used and put back before
SessionExclusivityWitness ==
    \E t1 \in Threads : \E t2 \in Threads \ {t1} :
        /\ th_pc[t1] = "yield" /\ th_pc[t2] = "yield"
        /\ th_session[t1] # 0 /\ th_session[t2] # 0
        /\ request_count[th_session[t1]] >= 1

\* scrape_url was called on a scraper whose pool is enabled and came up
PoolEnabled == f_entry = "scrape_url" /\ cfg.use_browser_pool /\ cfg.browser_pool

NewBrowserCalled ==
    \E i \in 1..Len(render_calls) : render_calls[i] = "_scrape_with_new_browser"

\* C22: with the pool enabled the rendering fetch goes through the pool first
\* and a one-shot browser is used only after the pooled attempt raised; when
\* the pooled attempt raised, in particular because the pool gave no session,
\* scrape_url does not raise and returns what the one-shot browser fetch gave.
PoolFirstOneShotFallback ==
    PoolEnabled =>
        /\ render_calls # <<>> => render_calls[1] = "_scrape_with_browser_pool"
        /\ NewBrowserCalled => pool_exc # "None"
        /\ pool_exc # "None" => (f_pc # "raised" /\ f_escaped = "None")
        /\ (f_pc = "done" /\ pool_exc # "None") =>
              /\ render_calls = <<"_scrape_with_browser_pool", "_scrape_with_new_browser">>
              /\ f_ret.kind = "result"
              /\ f_ret.error # "Insufficient content"
              /\ f_ret.success <=> (f_exc = "None" /\ f_len > MIN_CONTENT_LENGTH)
        /\ (f_pc = "done" /\ render_calls # <<>> /\ pool_exc = "None") =>
              /\ render_calls = <<"_scrape_with_browser_pool">>
              /\ f_ret = RenderedResult(f_len, "_scrape_with_browser_pool")

\* the pool gave no session and scrape_url returned the page a one-shot
\* browser read
PoolFirstOneShotFallbackWitness ==
    /\ PoolEnabled
    /\ f_pc = "done"
    /\ pool_exc = "No browser available from pool"
    /\ render_calls = <<"_scrape_with_browser_pool", "_scrape_with_new_browser">>
    /\ f_ret.success

Collected == { i \in DOMAIN futures : futures[i] = "yielded" }
InSeq(x, seq) == \E k \in 1..Len(seq) : seq[k] = x

\* C23: a batch handed to the worker pool comes back with one entry per
\* domain, in results or in errors (|results| + |errors| = number of domains),
\* and what is recorded for a domain is decided by that domain's processing
\* alone, whatever the processing of the other domains did.
BatchFailureIsolation ==
    /\ b_pc # "raised"
    /\ b_pc = "returned" => Len(b_results) + Len(b_errors) = Len(items)
    /\ \A i \in Collected :
          IF behaviour[i] = "raises"
          THEN InSeq(ErrorInfo(items[i]), b_errors)
          ELSE InSeq(ResultOf(items[i]), b_results)

\* C24: when enrich_domain ran a multi-page crawl that returned at least one
\* page, the dictionary it returns has pages_scraped equal to the number of
\* entries of the crawl's results and scraped_urls equal to the list of their
\* URLs, on the successful, the scrape-failed and the analysis-failed paths.
CrawlMetadataInResult ==
    (d_pc = "returned" /\ scraping_depth > 0 /\ d_crawl = "returns" /\ Len(d_pages) >= 1) =>
        /\ d_result.pages_scraped = Len(d_pages)
        /\ d_result.has_scraped_urls
        /\ d_result.scraped_urls = KeyList(d_pages)

\* the address's domain is the target domain ignoring case, or ends with "."
\* followed by the target domain
OfTargetDomain(email) ==
    \/ Lower(email.host) = Lower(e_domain)
    \/ EndsWith(Lower(email.host), <<".">> \o Lower(e_domain))

\* the first place in the markup of an address equal to email ignoring case
FirstSeen(email) ==
    CHOOSE i \in 1..Len(all_emails) :
        /\ LowerAddress(all_emails[i]) = LowerAddress(email)
        /\ \A j \in 1..(i - 1) : LowerAddress(all_emails[j]) # LowerAddress(email)

IdempotentNormalization ==
    n_pc = "done" => n_twice = n_once

\* C27: for a company whose domain the service has not processed before, an
\* enrich_company call in which the scrape and the analysis succeed (and the
\* CRM accepts the update) has called analyze_company exactly once and
\* update_company exactly once when it returns, and returns True; for
\* EnrichmentService and for MultiPageEnrichmentService alike.
CrmUpdateOnSuccess ==
    (/\ c_pc = "returned"
     /\ c_fresh
     /\ ~DomainRejected(c_domain)
     /\ c_scrape = "success"
     /\ c_analysis.ok
     /\ c_update = "returns") =>
        /\ c_ret = "True"
        /\ analyze_calls = 1
        /\ update_calls = 1

\* C28. Each results key is popped once: for every URL that is a key of
\* results, the pair holding that URL is removed from the front of the queue
\* at most once during the crawl.
PopsOf(url) == { i \in 1..Len(pop_log) : pop_log[i][1] = url }

ResultKeyPoppedOnce ==
    \A k \in Keys(scraped_pages) : Cardinality(PopsOf(k)) <= 1

\* C28 as the code has it: the queue test of the enqueue loop compares
\* (link, depth + 1) pairs, so a URL can be queued once per depth and each of
\* its pairs is removed from the front of the queue at most once; only the
\* first removal of a results key is followed by a fetch.
ResultKeyPairPoppedOnce ==
    \A k \in Keys(scraped_pages) :
        /\ \A i, j \in PopsOf(k) : pop_log[i][2] = pop_log[j][2] => i = j
        /\ Cardinality({ i \in 1..Len(fetch_log) : fetch_log[i].url = k }) = 1

\* A results key left the front of the queue twice, at depth 1 and at depth 2.
ResultKeyPairPoppedOnceWitness ==
    \E k \in Keys(scraped_pages) :
        \E i, j \in PopsOf(k) : pop_log[i][2] = 1 /\ pop_log[j][2] = 2

\* C29. Enqueue causality: every pair (url, d+1) that is ever in the queue was
\* added while processing a page that was dequeued at depth d with
\* d < max_depth and whose fetch returned success = true; the only pair of
\* depth 0 is the seed, and no pair is added after a failed fetch.
AddedPairs ==
    { url_queue'[i] : i \in 1..Len(url_queue') } \ { url_queue[i] : i \in 1..Len(url_queue) }

EverEnqueued(url) ==
    { pop_log[i] : i \in PopsOf(url) }
        \cup { url_queue[i] : i \in { n \in 1..Len(url_queue) : url_queue[n][1] = url } }

FirstPop(url) == CHOOSE i \in PopsOf(url) : \A j \in PopsOf(url) : i <= j

SeveralPaths == { pop_log[i][1] : i \in { n \in 1..Len(pop_log) :
                                             Cardinality(EverEnqueued(pop_log[n][1])) > 1 } }

FetchedAtFirstPop ==
    \A u \in SeveralPaths :
        /\ \A pair \in EverEnqueued(u) : pop_log[FirstPop(u)][2] <= pair[2]
        /\ \E k \in 1..Len(fetch_log) :
              /\ fetch_log[k].url = u
              /\ fetch_log[k].depth = pop_log[FirstPop(u)][2]
              /\ \A n \in 1..Len(fetch_log) : fetch_log[n].url = u => n = k
              \* the fetch was made in the iteration of the first pop: the
              \* URLs popped before it account for the k - 1 earlier fetches
              /\ k - 1 = Cardinality({ pop_log[j][1] : j \in 1..(FirstPop(u) - 1) })

LaterPop ==
    /\ pop_log' # pop_log
    /\ PopsOf(Head(url_queue)[1]) # {}

LaterPopDoesNothing ==
    LaterPop =>
        /\ fetch_log' = fetch_log
        /\ scraped_pages' = scraped_pages
        /\ url_queue' = Tail(url_queue)
        /\ pages_by_depth' = pages_by_depth
        /\ visited_urls' = visited_urls

FirstPopWins == [] FetchedAtFirstPop /\ [][LaterPopDoesNothing]_vars

\* A URL queued at depths 1 and 2 was fetched at depth 1, its second pair was
\* popped later, and the crawl went on to fetch another page afterwards.
FirstPopWinsWitness ==
    \E i, j \in 1..Len(pop_log) :
        /\ i < j
        /\ j < Len(pop_log)
        /\ pop_log[i][1] = pop_log[j][1]
        /\ pop_log[i][2] < pop_log[j][2]
        /\ \E k \in 1..Len(fetch_log) :
              fetch_log[k].url = pop_log[i][1] /\ fetch_log[k].depth = pop_log[i][2]
        /\ Last(fetch_log).url = Last(pop_log)[1]
        /\ Last(fetch_log).url # pop_log[i][1]

\* C31. Enqueue rule: a discovered link is appended to the queue only if it is
\* not in visited and the pair (link, depth + 1) is not already in the queue;
\* consequently the queue never holds two identical (url, depth) pairs and
\* never receives a URL that was already visited at the time of the append.
QueueHasNoDuplicatePair ==
    \A i, j \in 1..Len(url_queue) : url_queue[i] = url_queue[j] => i = j

AppendsOnlyUnvisited ==
    \A i \in 1..Len(url_queue') :
        (\A n \in 1..Len(url_queue) : url_queue[n] # url_queue'[i])
            => /\ url_queue'[i][1] \notin visited_urls'
               /\ i > Len(url_queue) - 1 \/ url_queue = <<>>

EnqueueRule == [] QueueHasNoDuplicatePair /\ [][AppendsOnlyUnvisited]_vars

\* A page at depth 1 linked back to an already visited URL and to a fresh one:
\* the visited URL was extracted but is not in the queue, the fresh one waits
\* at depth 2.
EnqueueRuleWitness ==
    /\ \E u \in extracted_urls :
          /\ u \in visited_urls
          /\ \A i \in 1..Len(url_queue) : url_queue[i][1] # u
          /\ \A i \in PopsOf(u) : pop_log[i][2] = 0
    /\ \E i \in 1..Len(url_queue) : url_queue[i][2] = 2
    /\ Len(url_queue) >= 2

\* C32. Session return or recycle: after each use of a pooled session that
\* completes without exception, the session is either put back in the pool
\* (when its request count, age and idle time are below the limits) or closed
\* with the active-session count decremented by exactly one (when one limit is
\* reached), never both and never neither; a session handed out from the pool
\* always has a request count below max_requests_per_session.
UseEnds(t) ==
    /\ \/ th_pc[t] = "put"
       \/ th_pc[t] \in {"close", "decr_store"} /\ th_after[t] = "end"
    /\ th_pc'[t] = "idle"

PutBack(t) ==
    /\ InSeq(th_session[t], pool')
    /\ browsers'[th_session[t]] = browsers[th_session[t]]
    /\ active_sessions' = active_sessions
    /\ request_count[th_session[t]] < max_requests

Recycled(t) ==
    /\ ~InSeq(th_session[t], pool')
    /\ browsers'[th_session[t]] = "closed"
    /\ active_sessions' = active_sessions - 1

SessionReturnOrRecycle ==
    /\ [] (\A i \in 1..Len(pool) : request_count[pool[i]] < max_requests)
    /\ [][ \A t \in Threads : UseEnds(t) => PutBack(t) \/ Recycled(t) ]_vars

\* C33. Active-session counter accuracy: under any interleaving of get_browser
\* uses, session closes (successful or failing) and close_all calls, the
\* pool's _active_sessions counter is never negative and, whenever no call is
\* in the middle of opening or closing a session, equals the number of
\* browser sessions the pool has opened and not yet closed.
Quiescent ==
    \A t \in Threads : th_pc[t] \in {"idle", "get_nowait", "check_valid", "yield",
                                     "after_use", "put", "ca_loop"}

ActiveCounterAccurate ==
    /\ active_sessions >= 0
    /\ Quiescent /\ lock = 0 => active_sessions = Cardinality(OpenSessions)

\* C35. A pooled session whose use raised an exception is closed, with the
\* active-session count decremented, and is never put back in the pool; the
\* exception is re-raised to the caller of get_browser.
FailedUseEnds(t) ==
    /\ th_pc[t] \in {"close", "decr_store"}
    /\ th_after[t] = "raise"
    /\ th_pc'[t] = "idle"

FailedUseClosesSession ==
    [][ \A t \in Threads :
          FailedUseEnds(t) =>
              /\ browsers'[th_session[t]] = "closed"
              /\ active_sessions' = active_sessions - 1
              /\ ~InSeq(th_session[t], pool')
              /\ th_exc'[t]
      ]_vars

\* C36. Extraction failures degrade to empty results: when link extraction
\* from a successfully fetched page fails on its markup,
\* extract_links_from_html returns an empty list without raising, the page
\* stays recorded in results with its fetch outcome, nothing is enqueued for
\* it, and the crawl continues.
ExtractionFailureDegrades ==
    [][ extract_raised' =>
          /\ pc' = "loop"
          /\ exc' = "None"
          /\ url_queue' = Tail(url_queue)
          /\ extracted_urls' = extracted_urls
          /\ Len(fetch_log') = Len(fetch_log) + 1
          /\ Last(fetch_log').url = Head(url_queue)[1]
          /\ Last(fetch_log').success
          /\ \E i \in 1..Len(scraped_pages') :
                /\ scraped_pages'[i].key = Head(url_queue)[1]
                /\ scraped_pages'[i].success
                /\ scraped_pages'[i].error = "None"
      ]_vars

\* The extraction failed on a page of depth 1 while another page was waiting:
\* the crawl is in its loop with that page still in the queue.
ExtractionFailureDegradesWitness ==
    /\ extract_raised
    /\ pc = "loop"
    /\ Last(fetch_log).depth = 1
    /\ url_queue # <<>>
    /\ Len(scraped_pages) < max_pages

\* C37. Rate-limiter acquisition is a bounded blocking wait: every call
\* acquire(n) on a ThreadSafeRateLimiter eventually returns as time advances,
\* under any number of concurrently acquiring threads with fair scheduling,
\* and a thread that is waiting for tokens does not hold the limiter's lock
\* while it sleeps.
AcquireReturns ==
    /\ \A t \in Threads : (l_pc[t] = "lock") ~> (l_pc[t] = "idle")
    /\ [] (\A t \in Threads : l_pc[t] = "sleep" => l_lock # t)

\* C38. Token-bucket invariant: under any interleaving of acquire calls by
\* several threads, the limiter's token count is never negative and never
\* exceeds burst_size, and each returning acquire(n) has deducted exactly n
\* tokens that were available at the time of the deduction.
Returning(t) == l_pc[t] # "idle" /\ l_pc'[t] = "idle"

TokenBucketInvariant ==
    /\ [] (tokens >= 0 /\ tokens <= max_tokens)
    /\ [][ \A t \in Threads :
             Returning(t) => /\ l_lock = t
                             /\ tokens >= l_n[t]
                             /\ tokens' = tokens - l_n[t]
         ]_vars

\* Two threads were in acquire calls at once: one has returned with its
\* tokens deducted from a bucket that was refilled first, the other sleeps
\* for the tokens it lacks.
TokenBucketInvariantWitness ==
    \E t, u \in Threads :
        /\ l_pc[t] = "idle" /\ l_n[t] > 0
        /\ l_pc[u] = "sleep"
        /\ tokens < max_tokens
        /\ l_calls >= 3

\* C34. The session pool is not shared across threads: every BrowserPool
\* instance is used by the Page Fetcher of a single worker thread only, in
\* every configuration of the concurrent enrichment service (scraping depth 0
\* and depth > 0).
PoolPerThread ==
    \A t, u \in Threads : t # u /\ r_pool[t] # 0 => r_pool[t] # r_pool[u]

\* C34 as the code has it: the pool is process-wide. At scraping depth 0 each
\* worker thread builds its own WebScraper, and that scraper keeps the
\* BrowserPool that get_browser_pool returns, the module global current at
\* that moment, constructing none of its own; at depth > 0 the thread's
\* scraper holds no pool.
PoolIsProcessWide ==
    /\ [] (r_depth > 0 => \A t \in Threads : r_pool[t] = 0)
    /\ [][ \A t \in Threads :
             r_pool'[t] # r_pool[t] => /\ r_depth = 0
                                       /\ r_pool'[t] = g_pool
                                       /\ g_created' = g_created
         ]_vars

\* The scrapers of two worker threads hold the same BrowserPool instance.
PoolIsProcessWideWitness ==
    \E t, u \in Threads :
        /\ t # u
        /\ r_has[t] /\ r_has[u]
        /\ r_pool[t] # 0
        /\ r_pool[t] = r_pool[u]

\* C39. Single global pool: under any interleaving of concurrent first calls
\* to get_browser_pool from several threads, at most one BrowserPool instance
\* is created and every caller receives that same instance until
\* cleanup_browser_pool is called.
SingleGlobalPool ==
    ~r_cleaned =>
        /\ g_created <= 1
        /\ \A t, u \in Threads : r_pool[t] # 0 /\ r_pool[u] # 0 => r_pool[t] = r_pool[u]

====
